---- MODULE Spec2Model ----
(***************************************************************************)
(* A model of the gee geometry crate: the 2D affine Transform, the 4x4     *)
(* Transform3d, the Vector / Point / Rect / Angle operations they use, and *)
(* Scalar::new with the BreaksOrd trait.                                   *)
(*                                                                         *)
(* Scalars.  The crate is generic over a numeric type T (f32 by default).  *)
(* The model computes in the exact field Q(sqrt 2), extended by the three  *)
(* non-finite floating point values.  A finite scalar is a triple          *)
(* <<a, b, d>> standing for (a + b*sqrt(2)) / d with d > 0 and             *)
(* gcd(a, b, d) = 1, so that equal numbers are equal triples.  d = 0 marks *)
(* a non-finite value: <<1,0,0>> is +inf, <<-1,0,0>> is -inf, <<0,0,0>> is *)
(* NaN.  Rounding and signed zeros are not modelled.                       *)
(*                                                                         *)
(* Angles.  An Angle holds radians; the model measures an angle in eighths *)
(* of a turn (units of PI/4), the eight compass directions of              *)
(* direction.rs, for which sine, cosine, atan2 and sqrt are exact in       *)
(* Q(sqrt 2).                                                              *)
(***************************************************************************)
EXTENDS Integers, Sequences, FiniteSets, TLC

VARIABLES
    t,      \* the Transform an operation is applied to (self)
    u,      \* the second Transform operand (mat)
    m3,     \* the Transform3d operand (self)
    n3,     \* the second Transform3d operand (mat)
    v,      \* the Vector / Point operand, as a Vector
    rect,   \* the Rect operand
    dec,    \* the DecomposedTransform operand
    args,   \* the remaining arguments of the operation, by name
    op,     \* the operation that produced out ("init" before any)
    out     \* the value the operation returned

vars == <<t, u, m3, n3, v, rect, dec, args, op, out>>

-----------------------------------------------------------------------------
(* Scalar arithmetic *)

Abs(n) == IF n < 0 THEN -n ELSE n

RECURSIVE GCD(_, _)
GCD(m, n) == IF n = 0 THEN m ELSE GCD(n, m % n)

\* The normal form of (a + b*sqrt 2)/d, d # 0.
Norm3(a, b, d) ==
    LET g == GCD(GCD(Abs(a), Abs(b)), Abs(d))
        s == IF d < 0 THEN -g ELSE g
    IN  <<a \div s, b \div s, d \div s>>

S(n) == <<n, 0, 1>>
Frac(n, d) == Norm3(n, 0, d)
Root2(n, d) == Norm3(0, n, d)

NaN == <<0, 0, 0>>
PosInf == <<1, 0, 0>>
NegInf == <<-1, 0, 0>>

IsFinite(x) == x[3] # 0
IsNaN(x) == x = NaN

\* The sign of a + b*sqrt 2.
SignAB(a, b) ==
    IF a >= 0 /\ b >= 0 THEN (IF a = 0 /\ b = 0 THEN 0 ELSE 1)
    ELSE IF a <= 0 /\ b <= 0 THEN -1
    ELSE IF a > 0 THEN (IF a * a > 2 * b * b THEN 1 ELSE -1)
    ELSE (IF 2 * b * b > a * a THEN 1 ELSE -1)

\* -1, 0 or 1; the sign of an infinity is its sign, NaN has sign 0.
SSign(x) == IF IsFinite(x) THEN SignAB(x[1], x[2]) ELSE x[1]

Inf(sign) == IF sign > 0 THEN PosInf ELSE IF sign < 0 THEN NegInf ELSE NaN

SNeg(x) == <<-x[1], -x[2], x[3]>>

SAdd(x, y) ==
    IF IsFinite(x) /\ IsFinite(y)
    THEN Norm3(x[1] * y[3] + y[1] * x[3], x[2] * y[3] + y[2] * x[3], x[3] * y[3])
    ELSE IF IsNaN(x) \/ IsNaN(y) THEN NaN
    ELSE IF IsFinite(x) THEN y
    ELSE IF IsFinite(y) THEN x
    ELSE IF x = y THEN x ELSE NaN

SSub(x, y) == SAdd(x, SNeg(y))

SMul(x, y) ==
    IF IsFinite(x) /\ IsFinite(y)
    THEN Norm3(x[1] * y[1] + 2 * x[2] * y[2], x[1] * y[2] + x[2] * y[1], x[3] * y[3])
    ELSE Inf(SSign(x) * SSign(y))

\* 1/y for a finite y # 0: d*(a - b*sqrt 2)/(a^2 - 2*b^2).
SRecip(y) == Norm3(y[3] * y[1], -(y[3] * y[2]), y[1] * y[1] - 2 * y[2] * y[2])

SDiv(x, y) ==
    IF IsNaN(x) \/ IsNaN(y) THEN NaN
    ELSE IF ~IsFinite(y) THEN (IF IsFinite(x) THEN S(0) ELSE NaN)
    ELSE IF SSign(y) = 0 THEN Inf(SSign(x))
    ELSE IF ~IsFinite(x) THEN Inf(SSign(x) * SSign(y))
    ELSE SMul(x, SRecip(y))

\* fused multiply-add: x*y + z
mul_add(x, y, z) == SAdd(SMul(x, y), z)

\* Comparisons are false when either side is NaN, as for floats.
SLt(x, y) ==
    /\ ~IsNaN(x) /\ ~IsNaN(y)
    /\ x # y
    /\ IF IsFinite(x) /\ IsFinite(y) THEN SSign(SSub(x, y)) < 0
       ELSE IF IsFinite(x) THEN y = PosInf
       ELSE IF IsFinite(y) THEN x = NegInf
       ELSE x = NegInf

SGt(x, y) == SLt(y, x)
SEq(x, y) == ~IsNaN(x) /\ ~IsNaN(y) /\ x = y
SLe(x, y) == SLt(x, y) \/ SEq(x, y)

SAbs(x) == IF SSign(x) < 0 THEN SNeg(x) ELSE x

Zero == S(0)
One == S(1)

-----------------------------------------------------------------------------
(* Option *)

None == [some |-> FALSE]
Some(x) == [some |-> TRUE, value |-> x]

-----------------------------------------------------------------------------
(* Vector, Point *)

Vector_new(dx, dy) == [dx |-> dx, dy |-> dy]
Vector_zero == Vector_new(Zero, Zero)

Point_new(x, y) == [x |-> x, y |-> y]
Point_zero == Point_new(Zero, Zero)
Point_to_vector(p) == Vector_new(p.x, p.y)
Point_add(p, rhs) == Point_new(SAdd(p.x, rhs.dx), SAdd(p.y, rhs.dy))
Vector_to_point(w) == Point_add(Point_zero, w)

-----------------------------------------------------------------------------
(* Transform: the 3x2 row-major affine matrix *)

Transform_row_major(m11, m12, m21, m22, m31, m32) ==
    [m11 |-> m11, m12 |-> m12, m21 |-> m21, m22 |-> m22, m31 |-> m31, m32 |-> m32]

Transform_identity == Transform_row_major(One, Zero, Zero, One, Zero, Zero)

Transform_from_scale(x, y) == [Transform_identity EXCEPT !.m11 = x, !.m22 = y]

Transform_from_translation(x, y) == [Transform_identity EXCEPT !.m31 = x, !.m32 = y]

Transform_from_translation_vector(translation) == Transform_from_translation(translation.dx, translation.dy)

Transform_determinant(self) == SSub(SMul(self.m11, self.m22), SMul(self.m12, self.m21))

\* Transform_post_mul with the translation row multiplied in the other order.
Transform_post_mul_translation_reversed(self, mat) ==
    Transform_row_major(
        SAdd(SMul(self.m11, mat.m11), SMul(self.m12, mat.m21)),
        SAdd(SMul(self.m11, mat.m12), SMul(self.m12, mat.m22)),
        SAdd(SMul(self.m21, mat.m11), SMul(self.m22, mat.m21)),
        SAdd(SMul(self.m21, mat.m12), SMul(self.m22, mat.m22)),
        SAdd(SAdd(SMul(mat.m31, self.m11), SMul(mat.m32, self.m21)), self.m31),
        SAdd(SAdd(SMul(mat.m31, self.m12), SMul(mat.m32, self.m22)), self.m32))

\* Mutation: m12 takes mat.m21 where it should take mat.m22.
Transform_post_mul_m12_typo(self, mat) ==
    Transform_row_major(
        SAdd(SMul(self.m11, mat.m11), SMul(self.m12, mat.m21)),
        SAdd(SMul(self.m11, mat.m12), SMul(self.m12, mat.m21)),
        SAdd(SMul(self.m21, mat.m11), SMul(self.m22, mat.m21)),
        SAdd(SMul(self.m21, mat.m12), SMul(self.m22, mat.m22)),
        SAdd(SAdd(SMul(self.m31, mat.m11), SMul(self.m32, mat.m21)), mat.m31),
        SAdd(SAdd(SMul(self.m31, mat.m12), SMul(self.m32, mat.m22)), mat.m32))

Transform_post_mul(self, mat) ==
    Transform_row_major(
        SAdd(SMul(self.m11, mat.m11), SMul(self.m12, mat.m21)),
        SAdd(SMul(self.m11, mat.m12), SMul(self.m12, mat.m22)),
        SAdd(SMul(self.m21, mat.m11), SMul(self.m22, mat.m21)),
        SAdd(SMul(self.m21, mat.m12), SMul(self.m22, mat.m22)),
        SAdd(SAdd(SMul(self.m31, mat.m11), SMul(self.m32, mat.m21)), mat.m31),
        SAdd(SAdd(SMul(self.m31, mat.m12), SMul(self.m32, mat.m22)), mat.m32))

Transform_pre_mul(self, mat) == Transform_post_mul(mat, self)

\* Transform_inverse with the m31 numerator's two products exchanged.
Transform_inverse_m31_swapped(self) ==
    LET det == Transform_determinant(self) IN
    IF SEq(det, Zero) THEN None
    ELSE LET inv_det == SDiv(One, det) IN
         Some(Transform_row_major(
            SMul(inv_det, self.m22),
            SMul(inv_det, SSub(Zero, self.m12)),
            SMul(inv_det, SSub(Zero, self.m21)),
            SMul(inv_det, self.m11),
            SMul(inv_det, SSub(SMul(self.m22, self.m31), SMul(self.m21, self.m32))),
            SMul(inv_det, SSub(SMul(self.m31, self.m12), SMul(self.m11, self.m32)))))

\* Transform_inverse refusing every transform whose determinant is not positive.
Transform_inverse_rejects_reflections(self) ==
    LET det == Transform_determinant(self) IN
    IF SLe(det, Zero) THEN None
    ELSE LET inv_det == SDiv(One, det) IN
         Some(Transform_row_major(
            SMul(inv_det, self.m22),
            SMul(inv_det, SSub(Zero, self.m12)),
            SMul(inv_det, SSub(Zero, self.m21)),
            SMul(inv_det, self.m11),
            SMul(inv_det, SSub(SMul(self.m21, self.m32), SMul(self.m22, self.m31))),
            SMul(inv_det, SSub(SMul(self.m31, self.m12), SMul(self.m11, self.m32)))))

Transform_inverse(self) ==
    LET det == Transform_determinant(self) IN
    IF SEq(det, Zero) THEN None
    ELSE LET inv_det == SDiv(One, det) IN
         Some(Transform_row_major(
            SMul(inv_det, self.m22),
            SMul(inv_det, SSub(Zero, self.m12)),
            SMul(inv_det, SSub(Zero, self.m21)),
            SMul(inv_det, self.m11),
            SMul(inv_det, SSub(SMul(self.m21, self.m32), SMul(self.m22, self.m31))),
            SMul(inv_det, SSub(SMul(self.m31, self.m12), SMul(self.m11, self.m32)))))

\* Vector::transform: the linear part and the translation row.
Vector_transform(self, transform) ==
    Vector_new(
        SAdd(SAdd(SMul(self.dx, transform.m11), SMul(self.dy, transform.m21)), transform.m31),
        SAdd(SAdd(SMul(self.dx, transform.m12), SMul(self.dy, transform.m22)), transform.m32))

Point_transform(self, transform) ==
    Vector_to_point(Vector_transform(Point_to_vector(self), transform))

\* The earlier matrix type, Mat3x2, has the same six fields.
Mat3x2_transform_point(self, point) ==
    Point_new(
        SAdd(SAdd(SMul(point.x, self.m11), SMul(point.y, self.m21)), self.m31),
        SAdd(SAdd(SMul(point.x, self.m12), SMul(point.y, self.m22)), self.m32))

Mat3x2_transform_vector(self, vector) ==
    Vector_new(
        SAdd(SMul(vector.dx, self.m11), SMul(vector.dy, self.m21)),
        SAdd(SMul(vector.dx, self.m12), SMul(vector.dy, self.m22)))

-----------------------------------------------------------------------------
(* Rect *)

Rect_from_top_right_bottom_left(top, right, bottom, left) ==
    [top |-> top, right |-> right, bottom |-> bottom, left |-> left]

Rect_zero == Rect_from_top_right_bottom_left(Zero, Zero, Zero, Zero)

Rect_top_left(self) == Point_new(self.left, self.top)
Rect_top_right(self) == Point_new(self.right, self.top)
Rect_bottom_left(self) == Point_new(self.left, self.bottom)
Rect_bottom_right(self) == Point_new(self.right, self.bottom)

Rect_clockwise_points(self) ==
    <<Rect_top_left(self), Rect_top_right(self),
      Rect_bottom_right(self), Rect_bottom_left(self)>>

\* The loop of Rect::from_iter over the points after the first.
RECURSIVE from_iter_loop(_, _)
from_iter_loop(acc, points) ==
    IF points = <<>> THEN acc
    ELSE LET p == Head(points)
             min_x == IF SLt(p.x, acc.min_x) THEN p.x ELSE acc.min_x
             max_x == IF SGt(p.x, acc.max_x) THEN p.x ELSE acc.max_x
             min_y == IF SLt(p.y, acc.min_y) THEN p.y ELSE acc.min_y
             max_y == IF SGt(p.y, acc.max_y) THEN p.y ELSE acc.max_y
         IN  from_iter_loop(
                [min_x |-> min_x, max_x |-> max_x, min_y |-> min_y, max_y |-> max_y],
                Tail(points))

\* Rect_from_iter starting the maxima at zero instead of at the first point.
Rect_from_iter_max_from_zero(points) ==
    IF points = <<>> THEN Rect_zero
    ELSE LET first == Head(points)
             acc == from_iter_loop(
                [min_x |-> first.x, max_x |-> Zero, min_y |-> first.y, max_y |-> Zero],
                Tail(points))
         IN  Rect_from_top_right_bottom_left(acc.min_y, acc.max_x, acc.max_y, acc.min_x)

Rect_from_iter(points) ==
    IF points = <<>> THEN Rect_zero
    ELSE LET first == Head(points)
             acc == from_iter_loop(
                [min_x |-> first.x, max_x |-> first.x,
                 min_y |-> first.y, max_y |-> first.y],
                Tail(points))
         IN  Rect_from_top_right_bottom_left(acc.min_y, acc.max_x, acc.max_y, acc.min_x)

Rect_transform(self, transform) ==
    LET points == Rect_clockwise_points(self) IN
    Rect_from_iter([i \in 1..Len(points) |-> Point_transform(points[i], transform)])

-----------------------------------------------------------------------------
(* Transform3d: the 4x4 row-major homogeneous matrix *)

Transform3d_row_major(m11, m12, m13, m14, m21, m22, m23, m24, m31, m32, m33, m34, m41, m42, m43, m44) ==
    [m11 |-> m11, m12 |-> m12, m13 |-> m13, m14 |-> m14,
     m21 |-> m21, m22 |-> m22, m23 |-> m23, m24 |-> m24,
     m31 |-> m31, m32 |-> m32, m33 |-> m33, m34 |-> m34,
     m41 |-> m41, m42 |-> m42, m43 |-> m43, m44 |-> m44]

Transform3d_identity ==
    Transform3d_row_major(
        One, Zero, Zero, Zero,
        Zero, One, Zero, Zero,
        Zero, Zero, One, Zero,
        Zero, Zero, Zero, One)

Transform3d_from_scale(x, y, z) ==
    [Transform3d_identity EXCEPT !.m11 = x, !.m22 = y, !.m33 = z]

Transform3d_from_translation(x, y, z) ==
    [Transform3d_identity EXCEPT !.m41 = x, !.m42 = y, !.m43 = z]

\* Transform3d_post_mul whose m41 entry ends with self.m44 * mat.m11.
Transform3d_post_mul_m41_typo(self, mat) ==
    Transform3d_row_major(
        mul_add(self.m11, mat.m11,
            mul_add(self.m12, mat.m21, mul_add(self.m13, mat.m31, SMul(self.m14, mat.m41)))),
        mul_add(self.m11, mat.m12,
            mul_add(self.m12, mat.m22, mul_add(self.m13, mat.m32, SMul(self.m14, mat.m42)))),
        mul_add(self.m11, mat.m13,
            mul_add(self.m12, mat.m23, mul_add(self.m13, mat.m33, SMul(self.m14, mat.m43)))),
        mul_add(self.m11, mat.m14,
            mul_add(self.m12, mat.m24, mul_add(self.m13, mat.m34, SMul(self.m14, mat.m44)))),
        mul_add(self.m21, mat.m11,
            mul_add(self.m22, mat.m21, mul_add(self.m23, mat.m31, SMul(self.m24, mat.m41)))),
        mul_add(self.m21, mat.m12,
            mul_add(self.m22, mat.m22, mul_add(self.m23, mat.m32, SMul(self.m24, mat.m42)))),
        mul_add(self.m21, mat.m13,
            mul_add(self.m22, mat.m23, mul_add(self.m23, mat.m33, SMul(self.m24, mat.m43)))),
        mul_add(self.m21, mat.m14,
            mul_add(self.m22, mat.m24, mul_add(self.m23, mat.m34, SMul(self.m24, mat.m44)))),
        mul_add(self.m31, mat.m11,
            mul_add(self.m32, mat.m21, mul_add(self.m33, mat.m31, SMul(self.m34, mat.m41)))),
        mul_add(self.m31, mat.m12,
            mul_add(self.m32, mat.m22, mul_add(self.m33, mat.m32, SMul(self.m34, mat.m42)))),
        mul_add(self.m31, mat.m13,
            mul_add(self.m32, mat.m23, mul_add(self.m33, mat.m33, SMul(self.m34, mat.m43)))),
        mul_add(self.m31, mat.m14,
            mul_add(self.m32, mat.m24, mul_add(self.m33, mat.m34, SMul(self.m34, mat.m44)))),
        mul_add(self.m41, mat.m11,
            mul_add(self.m42, mat.m21, mul_add(self.m43, mat.m31, SMul(self.m44, mat.m11)))),
        mul_add(self.m41, mat.m12,
            mul_add(self.m42, mat.m22, mul_add(self.m43, mat.m32, SMul(self.m44, mat.m42)))),
        mul_add(self.m41, mat.m13,
            mul_add(self.m42, mat.m23, mul_add(self.m43, mat.m33, SMul(self.m44, mat.m43)))),
        mul_add(self.m41, mat.m14,
            mul_add(self.m42, mat.m24, mul_add(self.m43, mat.m34, SMul(self.m44, mat.m44)))))

Transform3d_post_mul(self, mat) ==
    Transform3d_row_major(
        mul_add(self.m11, mat.m11,
            mul_add(self.m12, mat.m21, mul_add(self.m13, mat.m31, SMul(self.m14, mat.m41)))),
        mul_add(self.m11, mat.m12,
            mul_add(self.m12, mat.m22, mul_add(self.m13, mat.m32, SMul(self.m14, mat.m42)))),
        mul_add(self.m11, mat.m13,
            mul_add(self.m12, mat.m23, mul_add(self.m13, mat.m33, SMul(self.m14, mat.m43)))),
        mul_add(self.m11, mat.m14,
            mul_add(self.m12, mat.m24, mul_add(self.m13, mat.m34, SMul(self.m14, mat.m44)))),
        mul_add(self.m21, mat.m11,
            mul_add(self.m22, mat.m21, mul_add(self.m23, mat.m31, SMul(self.m24, mat.m41)))),
        mul_add(self.m21, mat.m12,
            mul_add(self.m22, mat.m22, mul_add(self.m23, mat.m32, SMul(self.m24, mat.m42)))),
        mul_add(self.m21, mat.m13,
            mul_add(self.m22, mat.m23, mul_add(self.m23, mat.m33, SMul(self.m24, mat.m43)))),
        mul_add(self.m21, mat.m14,
            mul_add(self.m22, mat.m24, mul_add(self.m23, mat.m34, SMul(self.m24, mat.m44)))),
        mul_add(self.m31, mat.m11,
            mul_add(self.m32, mat.m21, mul_add(self.m33, mat.m31, SMul(self.m34, mat.m41)))),
        mul_add(self.m31, mat.m12,
            mul_add(self.m32, mat.m22, mul_add(self.m33, mat.m32, SMul(self.m34, mat.m42)))),
        mul_add(self.m31, mat.m13,
            mul_add(self.m32, mat.m23, mul_add(self.m33, mat.m33, SMul(self.m34, mat.m43)))),
        mul_add(self.m31, mat.m14,
            mul_add(self.m32, mat.m24, mul_add(self.m33, mat.m34, SMul(self.m34, mat.m44)))),
        mul_add(self.m41, mat.m11,
            mul_add(self.m42, mat.m21, mul_add(self.m43, mat.m31, SMul(self.m44, mat.m41)))),
        mul_add(self.m41, mat.m12,
            mul_add(self.m42, mat.m22, mul_add(self.m43, mat.m32, SMul(self.m44, mat.m42)))),
        mul_add(self.m41, mat.m13,
            mul_add(self.m42, mat.m23, mul_add(self.m43, mat.m33, SMul(self.m44, mat.m43)))),
        mul_add(self.m41, mat.m14,
            mul_add(self.m42, mat.m24, mul_add(self.m43, mat.m34, SMul(self.m44, mat.m44)))))

Transform3d_pre_mul(self, mat) == Transform3d_post_mul(mat, self)

\* Mutation: the homogeneous coordinate divides x and y.
Vector4d_truncate_divides_by_w(self) ==
    Vector_new(SDiv(self.dx, self.dw), SDiv(self.dy, self.dw))

Vector4d_truncate(self) == Vector_new(self.dx, self.dy)

transform_vector4d(self, w) ==
    [dx |-> SAdd(SAdd(SAdd(SMul(self.m11, w.dx), SMul(self.m21, w.dy)),
                      SMul(self.m31, w.dz)), SMul(self.m41, w.dw)),
     dy |-> SAdd(SAdd(SAdd(SMul(self.m12, w.dx), SMul(self.m22, w.dy)),
                      SMul(self.m32, w.dz)), SMul(self.m42, w.dw)),
     dz |-> SAdd(SAdd(SAdd(SMul(self.m13, w.dx), SMul(self.m23, w.dy)),
                      SMul(self.m33, w.dz)), SMul(self.m43, w.dw)),
     dw |-> SAdd(SAdd(SAdd(SMul(self.m14, w.dx), SMul(self.m24, w.dy)),
                      SMul(self.m34, w.dz)), SMul(self.m44, w.dw))]

transform_vector_impl(self, w) ==
    transform_vector4d(self, [dx |-> w.dx, dy |-> w.dy, dz |-> Zero, dw |-> One])

Transform3d_transform_vector(self, w) == Vector4d_truncate(transform_vector_impl(self, w))

Transform3d_transform_point(self, p) ==
    Vector_to_point(Transform3d_transform_vector(self, Point_to_vector(p)))

\* Transform3d_transform_rect listing the bottom corners left first, as
\* Mat3x2::transform_rect does.
Transform3d_transform_rect_bottom_swapped(self, r) ==
    [a |-> Transform3d_transform_point(self, Rect_top_left(r)),
     b |-> Transform3d_transform_point(self, Rect_top_right(r)),
     c |-> Transform3d_transform_point(self, Rect_bottom_left(r)),
     d |-> Transform3d_transform_point(self, Rect_bottom_right(r))]

Transform3d_transform_rect(self, r) ==
    [a |-> Transform3d_transform_point(self, Rect_top_left(r)),
     b |-> Transform3d_transform_point(self, Rect_top_right(r)),
     c |-> Transform3d_transform_point(self, Rect_bottom_right(r)),
     d |-> Transform3d_transform_point(self, Rect_bottom_left(r))]

\* Transform3d_from keeping the translation in the third row, where the 3x2
\* matrix has it.
Transform3d_from_translation_in_row_3(tr) ==
    [Transform3d_identity EXCEPT
        !.m11 = tr.m11, !.m12 = tr.m12, !.m21 = tr.m21, !.m22 = tr.m22,
        !.m31 = tr.m31, !.m32 = tr.m32]

\* Mutation: m12 and m21 change places.
Transform3d_from_m12_m21_swapped(tr) ==
    [Transform3d_identity EXCEPT
        !.m11 = tr.m11, !.m12 = tr.m21, !.m21 = tr.m12, !.m22 = tr.m22,
        !.m41 = tr.m31, !.m42 = tr.m32]

\* impl From<Transform<T>> for Transform3d<T>
Transform3d_from(tr) ==
    [Transform3d_identity EXCEPT
        !.m11 = tr.m11, !.m12 = tr.m12, !.m21 = tr.m21, !.m22 = tr.m22,
        !.m41 = tr.m31, !.m42 = tr.m32]

-----------------------------------------------------------------------------
(* Float functions of the numeric trait, exact on the model's scalars *)

Two == S(2)

halved(x) == SDiv(x, Two)

\* floor(x): the integer n with n <= x < n + 1.
SFloor(x) ==
    IF ~IsFinite(x) THEN x
    ELSE IF x[2] = 0 THEN S(x[1] \div x[3])
    ELSE LET r == ((Abs(x[1]) + 2 * Abs(x[2])) \div x[3]) + 1
         IN  S(CHOOSE n \in -r..r : SLe(S(n), x) /\ SLt(x, S(n + 1)))

\* sqrt(x).  A finite x > 0 has a root in the model when x is a rational
\* n/d with n*d or 2*n*d a perfect square; no other x is given to it.
SSqrt(x) ==
    CASE IsNaN(x) \/ SSign(x) < 0 -> NaN
      [] x = PosInf -> PosInf
      [] SSign(x) = 0 -> Zero
      [] IsFinite(x) /\ SSign(x) > 0 /\ x[2] = 0
            /\ (\E k \in 1..(x[1] * x[3]) : k * k = x[1] * x[3]) ->
            Frac(CHOOSE k \in 1..(x[1] * x[3]) : k * k = x[1] * x[3], x[3])
      [] IsFinite(x) /\ SSign(x) > 0 /\ x[2] = 0
            /\ (\E k \in 1..(2 * x[1] * x[3]) : k * k = 2 * x[1] * x[3]) ->
            Root2(CHOOSE k \in 1..(2 * x[1] * x[3]) : k * k = 2 * x[1] * x[3], 2 * x[3])

\* Mutation: the angle of the zero vector is undefined.
atan2_undefined_at_origin(y, x) ==
    CASE IsNaN(x) \/ IsNaN(y) -> NaN
      [] ~IsNaN(x) /\ ~IsNaN(y) /\ SSign(y) = 0 ->
            IF SSign(x) > 0 THEN S(0) ELSE IF SSign(x) < 0 THEN S(4) ELSE NaN
      [] ~IsNaN(x) /\ ~IsNaN(y) /\ SSign(y) # 0 /\ SSign(x) = 0 -> S(2 * SSign(y))
      [] SSign(y) # 0 /\ SSign(x) # 0 /\ SAbs(x) = SAbs(y) ->
            IF SSign(x) > 0 THEN S(SSign(y)) ELSE S(3 * SSign(y))
      [] SSign(y) # 0 /\ SSign(x) # 0 /\ ~IsFinite(x) /\ IsFinite(y) ->
            IF SSign(x) > 0 THEN S(0) ELSE S(4 * SSign(y))
      [] SSign(y) # 0 /\ SSign(x) # 0 /\ IsFinite(x) /\ ~IsFinite(y) -> S(2 * SSign(y))

\* y.atan2(x) in eighths of a turn, in -4..4.  It is exact for the eight
\* compass directions; no other finite direction is given to it.
atan2(y, x) ==
    CASE IsNaN(x) \/ IsNaN(y) -> NaN
      [] ~IsNaN(x) /\ ~IsNaN(y) /\ SSign(y) = 0 -> IF SSign(x) >= 0 THEN S(0) ELSE S(4)
      [] ~IsNaN(x) /\ ~IsNaN(y) /\ SSign(y) # 0 /\ SSign(x) = 0 -> S(2 * SSign(y))
      [] SSign(y) # 0 /\ SSign(x) # 0 /\ SAbs(x) = SAbs(y) ->
            IF SSign(x) > 0 THEN S(SSign(y)) ELSE S(3 * SSign(y))
      [] SSign(y) # 0 /\ SSign(x) # 0 /\ ~IsFinite(x) /\ IsFinite(y) ->
            IF SSign(x) > 0 THEN S(0) ELSE S(4 * SSign(y))
      [] SSign(y) # 0 /\ SSign(x) # 0 /\ IsFinite(x) /\ ~IsFinite(y) -> S(2 * SSign(y))

SinTable ==
    <<Zero, Root2(1, 2), One, Root2(1, 2), Zero, Root2(-1, 2), S(-1), Root2(-1, 2)>>

\* sin and cos of a whole number of eighths of a turn.
sin(x) == IF ~IsFinite(x) THEN NaN
          ELSE CASE x[2] = 0 /\ x[3] = 1 -> SinTable[(x[1] % 8) + 1]

cos(x) == IF ~IsFinite(x) THEN NaN
          ELSE CASE x[2] = 0 /\ x[3] = 1 -> SinTable[((x[1] + 2) % 8) + 1]

-----------------------------------------------------------------------------
(* Angle: radians, measured here in eighths of a turn *)

PI == S(4)
FRAC_PI_4 == S(1)
three == S(3)
five == S(5)
seven == S(7)

Angle_ZERO == Zero
Angle_FRAC_PI_2 == S(2)
Angle_FRAC_3PI_2 == SMul(Angle_FRAC_PI_2, three)
Angle_FRAC_PI_4 == FRAC_PI_4
Angle_FRAC_3PI_4 == SMul(FRAC_PI_4, three)
Angle_FRAC_5PI_4 == SMul(FRAC_PI_4, five)
Angle_FRAC_7PI_4 == SMul(FRAC_PI_4, seven)
Angle_PI == PI
TAU == S(8)

half_turn_degrees == S(180)

Angle_from_degrees(degrees) == SDiv(SMul(degrees, PI), half_turn_degrees)

\* Mutation: y is not negated, as if the y axis pointed up.
Angle_from_xy_y_up(x, y) == atan2(y, x)

Angle_from_xy(x, y) == atan2(SNeg(y), x)

\* Mutation: the half turn is not added before the floor.
Angle_normalize_from_zero(self) ==
    SSub(self, SMul(TAU, SFloor(SDiv(self, TAU))))

Angle_normalize(self) ==
    SSub(self, SMul(TAU, SFloor(SAdd(SDiv(self, TAU), halved(One)))))

\* (sin, cos)
Angle_sin_cos(self) == <<sin(self), cos(self)>>

Vector_dot_product(self, rhs) == SAdd(SMul(self.dx, rhs.dx), SMul(self.dy, rhs.dy))
Vector_magnitude_squared(self) == Vector_dot_product(self, self)
\* Mutation: the square root is left out.
Vector_magnitude_no_sqrt(self) == Vector_magnitude_squared(self)

Vector_magnitude(self) == SSqrt(Vector_magnitude_squared(self))
Vector_angle(self) == Angle_from_xy(self.dx, self.dy)
Vector_neg(self) == Vector_new(SNeg(self.dx), SNeg(self.dy))

Angle_unit_vector(self) ==
    LET sc == Angle_sin_cos(self) IN Vector_new(sc[2], SNeg(sc[1]))

Directions ==
    {"North", "Northeast", "East", "Southeast", "South", "Southwest", "West", "Northwest"}

Direction_angle(self) ==
    CASE self = "North" -> Angle_FRAC_PI_2
      [] self = "South" -> Angle_FRAC_3PI_2
      [] self = "East" -> Angle_ZERO
      [] self = "West" -> Angle_PI
      [] self = "Northeast" -> Angle_FRAC_PI_4
      [] self = "Southeast" -> Angle_FRAC_7PI_4
      [] self = "Southwest" -> Angle_FRAC_5PI_4
      [] self = "Northwest" -> Angle_FRAC_3PI_4

Direction_unit_vector(self) == Angle_unit_vector(Direction_angle(self))

-----------------------------------------------------------------------------
(* Transforms built from an angle *)

Transform_post_translate_vector(self, translation) ==
    Transform_post_mul(self, Transform_from_translation_vector(translation))

\* Mutation: the translation is applied after self instead of before it.
Transform_pre_translate_vector_applied_after(self, translation) ==
    Transform_post_mul(self, Transform_from_translation_vector(translation))

Transform_pre_translate_vector(self, translation) ==
    Transform_pre_mul(self, Transform_from_translation_vector(translation))

\* Mutation: the two sines change places, which turns the other way.
Transform_from_rotation_sines_swapped(theta, center) ==
    LET sc == Angle_sin_cos(theta)
        c == Point_to_vector(center)
    IN  Transform_post_translate_vector(
            Transform_pre_translate_vector(
                Transform_row_major(sc[2], sc[1], SNeg(sc[1]), sc[2], Zero, Zero),
                Vector_neg(c)),
            c)

Transform_from_rotation(theta, center) ==
    LET sc == Angle_sin_cos(theta)
        c == Point_to_vector(center)
    IN  Transform_post_translate_vector(
            Transform_pre_translate_vector(
                Transform_row_major(sc[2], SNeg(sc[1]), sc[1], sc[2], Zero, Zero),
                Vector_neg(c)),
            c)

\* Mutation: m21 is sin instead of -sin.
Transform_from_skew_sine_not_negated(theta) ==
    LET sc == Angle_sin_cos(theta)
    IN  Transform_row_major(One, Zero, sc[1], sc[2], Zero, Zero)

Transform_from_skew(theta) ==
    LET sc == Angle_sin_cos(theta)
    IN  Transform_row_major(One, Zero, SNeg(sc[1]), sc[2], Zero, Zero)

-----------------------------------------------------------------------------
(* Orthographic projection *)

\* Mutation: the translation is applied before the scale.
Transform3d_ortho_translated_first(left, right, bottom, top, near, far) ==
    Transform3d_pre_mul(
        Transform3d_from_scale(SDiv(Two, SSub(right, left)),
                               SDiv(Two, SSub(bottom, top)),
                               SDiv(SNeg(Two), SSub(far, near))),
        Transform3d_from_translation(
            SDiv(SNeg(SAdd(right, left)), SSub(right, left)),
            SDiv(SNeg(SAdd(bottom, top)), SSub(bottom, top)),
            SDiv(SNeg(SAdd(far, near)), SSub(far, near))))

Transform3d_ortho(left, right, bottom, top, near, far) ==
    Transform3d_post_mul(
        Transform3d_from_scale(SDiv(Two, SSub(right, left)),
                               SDiv(Two, SSub(bottom, top)),
                               SDiv(SNeg(Two), SSub(far, near))),
        Transform3d_from_translation(
            SDiv(SNeg(SAdd(right, left)), SSub(right, left)),
            SDiv(SNeg(SAdd(bottom, top)), SSub(bottom, top)),
            SDiv(SNeg(SAdd(far, near)), SSub(far, near))))

-----------------------------------------------------------------------------
(* Decomposition and recomposition *)

\* Transform_decompose reporting the angle between the rows as the skew,
\* without taking the right angle off.
Transform_decompose_skew_not_offset(self) ==
    LET row_x == Vector_new(self.m11, self.m12)
        row_y == Vector_new(self.m21, self.m22)
        row_z == Vector_new(self.m31, self.m32)
        rotation_x == Vector_angle(row_x)
        rotation_y == Vector_angle(row_y)
        skew0 == Angle_normalize(SSub(rotation_y, rotation_x))
        flipped == IF SLt(skew0, Zero) THEN <<SAbs(skew0), One>> ELSE <<skew0, SNeg(One)>>
    IN  [translation |-> row_z,
         scale |-> Vector_new(Vector_magnitude(row_x),
                              SMul(Vector_magnitude(row_y), flipped[2])),
         rotation |-> rotation_x,
         skew |-> flipped[1]]

\* Mutation: the translation is read from the second row.
Transform_decompose_translation_from_row_y(self) ==
    LET row_x == Vector_new(self.m11, self.m12)
        row_y == Vector_new(self.m21, self.m22)
        rotation_x == Vector_angle(row_x)
        rotation_y == Vector_angle(row_y)
        skew0 == Angle_normalize(SSub(rotation_y, rotation_x))
        flipped == IF SLt(skew0, Zero) THEN <<SAbs(skew0), One>> ELSE <<skew0, SNeg(One)>>
    IN  [translation |-> row_y,
         scale |-> Vector_new(Vector_magnitude(row_x),
                              SMul(Vector_magnitude(row_y), flipped[2])),
         rotation |-> rotation_x,
         skew |-> SSub(flipped[1], Angle_FRAC_PI_2)]

\* Mutation: the reflection is reported on the x scale.
Transform_decompose_flip_on_x(self) ==
    LET row_x == Vector_new(self.m11, self.m12)
        row_y == Vector_new(self.m21, self.m22)
        row_z == Vector_new(self.m31, self.m32)
        rotation_x == Vector_angle(row_x)
        rotation_y == Vector_angle(row_y)
        skew0 == Angle_normalize(SSub(rotation_y, rotation_x))
        flipped == IF SLt(skew0, Zero) THEN <<SAbs(skew0), One>> ELSE <<skew0, SNeg(One)>>
    IN  [translation |-> row_z,
         scale |-> Vector_new(SMul(Vector_magnitude(row_x), flipped[2]),
                              Vector_magnitude(row_y)),
         rotation |-> rotation_x,
         skew |-> SSub(flipped[1], Angle_FRAC_PI_2)]

Transform_decompose(self) ==
    LET row_x == Vector_new(self.m11, self.m12)
        row_y == Vector_new(self.m21, self.m22)
        row_z == Vector_new(self.m31, self.m32)
        rotation_x == Vector_angle(row_x)
        rotation_y == Vector_angle(row_y)
        skew0 == Angle_normalize(SSub(rotation_y, rotation_x))
        flipped == IF SLt(skew0, Zero) THEN <<SAbs(skew0), One>> ELSE <<skew0, SNeg(One)>>
    IN  [translation |-> row_z,
         scale |-> Vector_new(Vector_magnitude(row_x),
                              SMul(Vector_magnitude(row_y), flipped[2])),
         rotation |-> rotation_x,
         skew |-> SSub(flipped[1], Angle_FRAC_PI_2)]

\* Transform_from_decomposed without the choice of skew sign on a flip.
Transform_from_decomposed_no_flip(d) ==
    LET sc1 == Angle_sin_cos(d.rotation)
        k == SNeg(d.skew)
        sc2 == Angle_sin_cos(SAdd(d.rotation, k))
    IN  Transform_row_major(
            SMul(sc1[2], d.scale.dx),
            SMul(SNeg(sc1[1]), d.scale.dx),
            SMul(sc2[1], d.scale.dy),
            SMul(sc2[2], d.scale.dy),
            d.translation.dx,
            d.translation.dy)

Transform_from_decomposed(d) ==
    LET sc1 == Angle_sin_cos(d.rotation)
        k == IF SLt(SMul(d.scale.dx, d.scale.dy), Zero) THEN d.skew ELSE SNeg(d.skew)
        sc2 == Angle_sin_cos(SAdd(d.rotation, k))
    IN  Transform_row_major(
            SMul(sc1[2], d.scale.dx),
            SMul(SNeg(sc1[1]), d.scale.dx),
            SMul(sc2[1], d.scale.dy),
            SMul(sc2[2], d.scale.dy),
            d.translation.dx,
            d.translation.dy)

DecomposedTransform_identity ==
    [translation |-> Vector_zero, scale |-> Vector_new(One, One),
     rotation |-> Angle_ZERO, skew |-> Angle_ZERO]

-----------------------------------------------------------------------------
(* Inputs *)

\* Matrix entries and coordinates range over -MaxCoord..MaxCoord.
MaxCoord == 1

\* Row magnitudes of the transforms given to decompose range over 0..MaxMag
\* (times 1, sqrt 2 and sqrt(2)/2 on the diagonals).
MaxMag == 2

Coords == {S(n) : n \in -MaxCoord..MaxCoord}

Transforms ==
    {Transform_row_major(a, b, c, d, e, f) :
        a \in Coords, b \in Coords, c \in Coords, d \in Coords,
        e \in Coords, f \in Coords}

SampleTranslations == {<<Zero, Zero>>, <<S(1), S(2)>>, <<S(-2), Frac(1, 2)>>}

\* Every linear part over Coords, with a few translations.
Affines ==
    {Transform_row_major(a, b, c, d, tr[1], tr[2]) :
        a \in Coords, b \in Coords, c \in Coords, d \in Coords,
        tr \in SampleTranslations}

\* identity, scale, translation, quarter turn, shear, reflection, a general
\* and a singular transform
SampleTransforms ==
    {Transform_identity,
     Transform_from_scale(S(2), S(3)),
     Transform_from_translation(S(1), S(2)),
     Transform_row_major(S(0), S(-1), S(1), S(0), S(0), S(0)),
     Transform_row_major(S(1), S(0), S(1), S(1), S(0), S(-1)),
     Transform_row_major(S(1), S(0), S(0), S(-1), S(3), S(0)),
     Transform_row_major(S(2), S(-1), S(1), S(3), S(-1), S(2)),
     Transform_row_major(S(1), S(2), S(2), S(4), S(1), S(1))}

Vectors == {Vector_new(x, y) : x \in Coords, y \in Coords}

SampleVectors ==
    {Vector_zero, Vector_new(S(1), S(0)), Vector_new(S(3), S(4)),
     Vector_new(S(-2), Frac(1, 2))}

\* a unit square, a larger rect, a point, and a rect with left > right
SampleRects ==
    {Rect_from_top_right_bottom_left(S(0), S(1), S(1), S(0)),
     Rect_from_top_right_bottom_left(S(-1), S(2), S(3), S(-2)),
     Rect_from_top_right_bottom_left(S(1), S(1), S(1), S(1)),
     Rect_from_top_right_bottom_left(S(2), S(-1), S(0), S(1))}

SampleRows4 ==
    {<<One, Zero, Zero, Zero>>, <<Zero, One, Zero, Zero>>,
     <<Zero, Zero, One, Zero>>, <<Zero, Zero, Zero, One>>,
     <<S(1), S(2), S(-1), S(3)>>, <<S(-1), Zero, S(2), Frac(1, 2)>>}

Transform3d_from_rows(a, b, c, d) ==
    Transform3d_row_major(a[1], a[2], a[3], a[4], b[1], b[2], b[3], b[4],
                          c[1], c[2], c[3], c[4], d[1], d[2], d[3], d[4])

Transforms3d ==
    {Transform3d_from_rows(a, b, c, d) :
        a \in SampleRows4, b \in SampleRows4, c \in SampleRows4, d \in SampleRows4}

SampleTransforms3d ==
    {Transform3d_identity,
     Transform3d_from_scale(S(2), S(3), S(-1)),
     Transform3d_from_translation(S(1), S(2), S(3)),
     Transform3d_from_rows(<<S(1), S(2), S(-1), S(3)>>, <<S(0), S(1), S(2), S(-1)>>,
                           <<S(2), S(0), S(1), S(1)>>, <<S(-1), S(3), S(0), S(2)>>)}

\* The eight compass directions with whole coordinates, and the four
\* diagonal unit vectors.
LatticeDirections ==
    {<<x, y>> : x \in {S(-1), S(0), S(1)}, y \in {S(-1), S(0), S(1)}}
    \cup {<<x, y>> : x \in {Root2(-1, 2), Root2(1, 2)}, y \in {Root2(-1, 2), Root2(1, 2)}}

LatticeVectors ==
    {<<SMul(S(m), c[1]), SMul(S(m), c[2])>> : m \in 1..MaxMag, c \in LatticeDirections}

\* Rotation and skew angles are whole eighths of a turn in
\* -MaxEighths..MaxEighths, given in degrees.
MaxEighths == 8

eighth_turn_degrees == S(45)

SampleAngles ==
    {Angle_from_degrees(SMul(S(k), eighth_turn_degrees)) : k \in -MaxEighths..MaxEighths}

SampleCenters == {Point_zero, Point_new(S(1), S(2)), Point_new(S(-2), Frac(1, 2))}

DirectionVectors == {Direction_unit_vector(d) : d \in Directions}

\* Scale factors and offsets: whole numbers of either sign, zero, a half.
Extents == {S(n) : n \in -MaxMag..MaxMag} \cup {Frac(1, 2)}

Decomposables ==
    {Transform_row_major(x[1], x[2], y[1], y[2], tr[1], tr[2]) :
        x \in LatticeVectors, y \in LatticeVectors, tr \in SampleTranslations}

NoOut == [none |-> TRUE]

NoArgs == [none |-> TRUE]

\* Operands an operation does not read keep these values.
Unused(names) ==
    /\ "t" \in names => t = Transform_identity
    /\ "u" \in names => u = Transform_identity
    /\ "m3" \in names => m3 = Transform3d_identity
    /\ "n3" \in names => n3 = Transform3d_identity
    /\ "v" \in names => v = Vector_zero
    /\ "rect" \in names => rect = Rect_zero
    /\ "dec" \in names => dec = DecomposedTransform_identity
    /\ "args" \in names => args = NoArgs

Start == op = "init" /\ out = NoOut

\* An operation reads its operands and leaves them alone.
operands == <<t, u, m3, n3, v, rect, dec, args>>

-----------------------------------------------------------------------------
(* Inversion *)

InitInverse ==
    /\ t \in Transforms
    /\ Unused({"args", "u", "m3", "n3", "v", "rect", "dec"})
    /\ Start

Determinant ==
    /\ op = "init"
    /\ op' = "determinant"
    /\ out' = Transform_determinant(t)
    /\ UNCHANGED operands

Inverse ==
    /\ op = "init"
    /\ op' = "inverse"
    /\ out' = Transform_inverse(t)
    /\ UNCHANGED operands

NextInverse == Determinant \/ Inverse

SpecInverse == InitInverse /\ [][NextInverse]_vars

\* C1: for a transform T with a non-zero determinant, inverse() returns
\* Some(inv) and T.post_mul(inv) is the identity, field by field.
C1_InverseRoundTrip ==
    (op = "inverse" /\ Transform_determinant(t) # Zero) =>
        (out.some /\ Transform_post_mul(t, out.value) = Transform_identity)

\* A transform with determinant 2 and a translation has been inverted.
C1_Witness ==
    /\ op = "inverse"
    /\ Transform_determinant(t) = S(2)
    /\ t.m31 # Zero /\ t.m32 # Zero
    /\ out.some
    /\ Transform_post_mul(t, out.value) = Transform_identity

\* C2: inverse() returns None exactly when the determinant m11*m22 - m12*m21
\* is zero; otherwise it returns Some, whose fields are all finite (no
\* division by zero is reached).
C2_NoneIffSingular ==
    op = "inverse" =>
        /\ (out = None) <=> (SSub(SMul(t.m11, t.m22), SMul(t.m12, t.m21)) = Zero)
        /\ out # None =>
            /\ out.some
            /\ \A f \in DOMAIN out.value : IsFinite(out.value[f])

\* A singular transform with no zero entry in its linear part got None.
C2_Witness ==
    /\ op = "inverse"
    /\ out = None
    /\ t.m11 # Zero /\ t.m12 # Zero /\ t.m21 # Zero /\ t.m22 # Zero

-----------------------------------------------------------------------------
(* Composition *)

InitCompose ==
    /\ \/ /\ t \in Affines
          /\ u \in SampleTransforms
          /\ v \in SampleVectors
          /\ Unused({"m3", "n3"})
       \/ /\ m3 \in Transforms3d
          /\ n3 \in SampleTransforms3d
          /\ Unused({"t", "u", "v"})
       \/ /\ m3 \in SampleTransforms3d
          /\ n3 \in Transforms3d
          /\ Unused({"t", "u", "v"})
    /\ Unused({"args", "rect", "dec"})
    /\ Start

PostMul ==
    /\ op = "init"
    /\ op' = "post_mul"
    /\ out' = Transform_post_mul(t, u)
    /\ UNCHANGED operands

PreMul ==
    /\ op = "init"
    /\ op' = "pre_mul"
    /\ out' = Transform_pre_mul(t, u)
    /\ UNCHANGED operands

PostMul3d ==
    /\ op = "init"
    /\ op' = "post_mul3d"
    /\ out' = Transform3d_post_mul(m3, n3)
    /\ UNCHANGED operands

PreMul3d ==
    /\ op = "init"
    /\ op' = "pre_mul3d"
    /\ out' = Transform3d_pre_mul(m3, n3)
    /\ UNCHANGED operands

NextCompose == PostMul \/ PreMul \/ PostMul3d \/ PreMul3d

SpecCompose == InitCompose /\ [][NextCompose]_vars

\* C5: T.post_mul(identity()) = T and identity().post_mul(T) = T, for the 2D
\* Transform and for the 4x4 Transform3d.
C5_IdentityLaws ==
    /\ (op = "post_mul" /\ u = Transform_identity) => out = t
    /\ (op = "post_mul" /\ t = Transform_identity) => out = u
    /\ (op = "post_mul3d" /\ n3 = Transform3d_identity) => out = m3
    /\ (op = "post_mul3d" /\ m3 = Transform3d_identity) => out = n3

\* The 4x4 identity was multiplied by a matrix with a projective column.
C5_Witness ==
    /\ op = "post_mul3d"
    /\ m3 = Transform3d_identity
    /\ n3 # Transform3d_identity
    /\ n3.m14 # Zero /\ n3.m41 # Zero
    /\ out = n3

\* C6: transforming a point by A.post_mul(B) is transforming it by A and
\* then by B; and A.pre_mul(B) = B.post_mul(A).
C6_CompositionOrder ==
    /\ op = "post_mul" =>
        Point_transform(Vector_to_point(v), out)
            = Point_transform(Point_transform(Vector_to_point(v), t), u)
    /\ op = "pre_mul" => out = Transform_post_mul(u, t)

\* Two transforms that do not commute were composed, for a point off the
\* origin.
C6_Witness ==
    /\ op = "post_mul"
    /\ Transform_post_mul(t, u) # Transform_post_mul(u, t)
    /\ t.m31 # Zero /\ u.m31 # Zero
    /\ v # Vector_zero
    /\ Point_transform(Vector_to_point(v), out)
            # Point_transform(Point_transform(Vector_to_point(v), u), t)

-----------------------------------------------------------------------------
(* Applying a transform to a vector *)

InitApply ==
    /\ t \in Affines
    /\ v \in Vectors
    /\ Unused({"args", "u", "m3", "n3", "rect", "dec"})
    /\ Start

VectorTransform ==
    /\ op = "init"
    /\ op' = "vector_transform"
    /\ out' = Vector_transform(v, t)
    /\ UNCHANGED operands

PointTransform ==
    /\ op = "init"
    /\ op' = "point_transform"
    /\ out' = Point_transform(Vector_to_point(v), t)
    /\ UNCHANGED operands

Mat3x2TransformVector ==
    /\ op = "init"
    /\ op' = "mat3x2_transform_vector"
    /\ out' = Mat3x2_transform_vector(t, v)
    /\ UNCHANGED operands

Mat3x2TransformPoint ==
    /\ op = "init"
    /\ op' = "mat3x2_transform_point"
    /\ out' = Mat3x2_transform_point(t, Vector_to_point(v))
    /\ UNCHANGED operands

LiftedTransformVector ==
    /\ op = "init"
    /\ op' = "lifted_transform_vector"
    /\ out' = Transform3d_transform_vector(Transform3d_from(t), v)
    /\ UNCHANGED operands

NextApply ==
    \/ VectorTransform
    \/ PointTransform
    \/ Mat3x2TransformVector
    \/ Mat3x2TransformPoint
    \/ LiftedTransformVector

SpecApply == InitApply /\ [][NextApply]_vars

\* The linear part of a transform applied to a vector.
LinearImage(w, tr) ==
    Vector_new(SAdd(SMul(w.dx, tr.m11), SMul(w.dy, tr.m21)),
               SAdd(SMul(w.dx, tr.m12), SMul(w.dy, tr.m22)))

\* C7: transforming a free Vector applies only the linear part,
\* (dx*m11 + dy*m21, dx*m12 + dy*m22); the translation (m31, m32) is never
\* added, so the zero vector maps to the zero vector.
C7_VectorLinearOnly ==
    /\ op = "vector_transform" => out = LinearImage(v, t)
    /\ op = "mat3x2_transform_vector" => out = LinearImage(v, t)

\* C8: Transform3d::from(T).transform_vector(v) is v transformed by T in 2D.
C8_LiftPreserves2d ==
    op = "lifted_transform_vector" =>
        /\ out = Vector_transform(v, t)
        /\ (t = Transform_from_translation(S(1), S(2)) /\ v = Vector_zero)
                => out = Vector_new(S(1), S(2))

\* A transform with a shear and a translation was lifted and applied to a
\* vector off the axes.
C8_Witness ==
    /\ op = "lifted_transform_vector"
    /\ t.m12 # Zero /\ t.m21 # Zero /\ t.m31 = S(1) /\ t.m32 = S(2)
    /\ v.dx # Zero /\ v.dy # Zero
    /\ out = Vector_transform(v, t)
    /\ out # LinearImage(v, t)

-----------------------------------------------------------------------------
(* Applying a transform to a rect *)

InitRect ==
    /\ \/ /\ t \in Affines
          /\ Unused({"m3"})
       \/ /\ m3 \in Transforms3d
          /\ Unused({"t"})
    /\ rect \in SampleRects
    /\ Unused({"args", "u", "n3", "v", "dec"})
    /\ Start

RectTransform ==
    /\ op = "init"
    /\ op' = "rect_transform"
    /\ out' = Rect_transform(rect, t)
    /\ UNCHANGED operands

Transform3dTransformRect ==
    /\ op = "init"
    /\ op' = "transform_rect3d"
    /\ out' = Transform3d_transform_rect(m3, rect)
    /\ UNCHANGED operands

NextRect == RectTransform \/ Transform3dTransformRect

SpecRect == InitRect /\ [][NextRect]_vars

\* The images under the 2D transform tr of the four corners of r.
CornerImages(r, tr) ==
    {Mat3x2_transform_point(tr, Point_new(x, y)) :
        x \in {r.left, r.right}, y \in {r.top, r.bottom}}

\* C9: Rect::transform returns the bounding box of the four transformed
\* corners: it contains each of them inclusively, and each of its four sides
\* passes through one of them.
C9_RectTransformIsBoundingBox ==
    op = "rect_transform" =>
        LET images == CornerImages(rect, t) IN
        /\ \A c \in images :
            /\ SLe(out.left, c.x) /\ SLe(c.x, out.right)
            /\ SLe(out.top, c.y) /\ SLe(c.y, out.bottom)
        /\ \E c \in images : c.x = out.left
        /\ \E c \in images : c.x = out.right
        /\ \E c \in images : c.y = out.top
        /\ \E c \in images : c.y = out.bottom

\* A rect with area was rotated or sheared: no corner of the result is the
\* image of a corner.
C9_Witness ==
    /\ op = "rect_transform"
    /\ SLt(rect.left, rect.right) /\ SLt(rect.top, rect.bottom)
    /\ Transform_determinant(t) # Zero
    /\ \A x \in {out.left, out.right}, y \in {out.top, out.bottom} :
            Point_new(x, y) \notin CornerImages(rect, t)

\* The image of the point (x, y) lifted to (x, y, 0, 1) under the 4x4
\* matrix m, z and w dropped.
Image3d(m, x, y) ==
    Point_new(SAdd(SAdd(SMul(x, m.m11), SMul(y, m.m21)), m.m41),
              SAdd(SAdd(SMul(x, m.m12), SMul(y, m.m22)), m.m42))

\* C10: Transform3d::transform_rect returns the quad whose points a, b, c, d
\* are the images of the top-left, top-right, bottom-right and bottom-left
\* corners, in that order.
C10_QuadCornersInOrder ==
    op = "transform_rect3d" =>
        /\ out.a = Image3d(m3, rect.left, rect.top)
        /\ out.b = Image3d(m3, rect.right, rect.top)
        /\ out.c = Image3d(m3, rect.right, rect.bottom)
        /\ out.d = Image3d(m3, rect.left, rect.bottom)

\* A rect with area was mapped to four distinct points that are not the
\* corners of an axis-aligned box.
C10_Witness ==
    /\ op = "transform_rect3d"
    /\ SLt(rect.left, rect.right) /\ SLt(rect.top, rect.bottom)
    /\ Cardinality({out.a, out.b, out.c, out.d}) = 4
    /\ out.a.y # out.b.y /\ out.a.x # out.d.x
    /\ out.a = Image3d(m3, rect.left, rect.top)
    /\ out.c = Image3d(m3, rect.right, rect.bottom)

-----------------------------------------------------------------------------
(* Decomposition and recomposition *)

InitDecompose ==
    /\ t \in Decomposables
    /\ Unused({"args", "u", "m3", "n3", "v", "rect", "dec"})
    /\ Start

Decompose ==
    /\ op = "init"
    /\ op' = "decompose"
    /\ dec' = Transform_decompose(t)
    /\ out' = dec'
    /\ UNCHANGED <<t, u, m3, n3, v, rect, args>>

\* from_decomposed applied to what decompose returned
Recompose ==
    /\ op = "decompose"
    /\ op' = "from_decomposed"
    /\ out' = Transform_from_decomposed(dec)
    /\ UNCHANGED operands

NextDecompose == Decompose \/ Recompose

SpecDecompose == InitDecompose /\ [][NextDecompose]_vars

RowsNonZero(tr) ==
    /\ tr.m11 # Zero \/ tr.m12 # Zero
    /\ tr.m21 # Zero \/ tr.m22 # Zero

\* C3: for a transform T with a positive determinant and non-zero rows,
\* from_decomposed(T.decompose()) has the six fields of T.
C3_RecomposeNonReflective ==
    (op = "from_decomposed" /\ SGt(Transform_determinant(t), Zero) /\ RowsNonZero(t))
        => out = t

\* A rotated, sheared, non-reflective transform with a translation made the
\* round trip.
C3_Witness ==
    /\ op = "from_decomposed"
    /\ SGt(Transform_determinant(t), Zero)
    /\ dec.skew # Zero /\ dec.rotation # Zero
    /\ dec.scale.dx # dec.scale.dy
    /\ t.m31 # Zero
    /\ out = t

\* C4: for a transform T with a negative determinant and non-zero rows,
\* from_decomposed(T.decompose()) has the six fields of T: decompose reports
\* a negative y-scale and from_decomposed then takes the skew unnegated.
C4_RecomposeReflective ==
    (op = "from_decomposed" /\ SLt(Transform_determinant(t), Zero) /\ RowsNonZero(t))
        => /\ out = t
           /\ SLt(SMul(dec.scale.dx, dec.scale.dy), Zero)

\* A rotated, sheared reflection made the round trip.
C4_Witness ==
    /\ op = "from_decomposed"
    /\ SLt(Transform_determinant(t), Zero)
    /\ dec.skew # Zero /\ dec.rotation # Zero
    /\ SLt(dec.scale.dy, Zero)
    /\ out = t

-----------------------------------------------------------------------------
(* Applying a 3D transform to a 2D vector *)

InitApply3d ==
    /\ m3 \in Transforms3d
    /\ v \in SampleVectors
    /\ Unused({"args", "t", "u", "n3", "rect", "dec"})
    /\ Start

Transform3dTransformVector ==
    /\ op = "init"
    /\ op' = "transform3d_transform_vector"
    /\ out' = Transform3d_transform_vector(m3, v)
    /\ UNCHANGED operands

Transform3dTransformPoint ==
    /\ op = "init"
    /\ op' = "transform3d_transform_point"
    /\ out' = Transform3d_transform_point(m3, Vector_to_point(v))
    /\ UNCHANGED operands

NextApply3d ==
    \/ Transform3dTransformVector
    \/ Transform3dTransformPoint

SpecApply3d == InitApply3d /\ [][NextApply3d]_vars

\* m with its third row replaced by row c and every entry of its third and
\* fourth columns in the other rows replaced by k.
OtherDepthAndW(m, c, k) ==
    Transform3d_row_major(m.m11, m.m12, k, k, m.m21, m.m22, k, k,
                          c[1], c[2], c[3], c[4], m.m41, m.m42, k, k)

\* C11: Transform3d::transform_vector(v) is
\* (dx*m11 + dy*m21 + m41, dx*m12 + dy*m22 + m42): the vector is lifted to
\* (dx, dy, 0, 1), multiplied, and x and y are kept without dividing by w, so
\* the third and fourth columns and the third row do not affect the result.
C11_TransformVectorNoDivide ==
    op = "transform3d_transform_vector" =>
        /\ out = Vector_new(
                    SAdd(SAdd(SMul(v.dx, m3.m11), SMul(v.dy, m3.m21)), m3.m41),
                    SAdd(SAdd(SMul(v.dx, m3.m12), SMul(v.dy, m3.m22)), m3.m42))
        /\ \A c \in SampleRows4, k \in Coords :
                Transform3d_transform_vector(OtherDepthAndW(m3, c, k), v) = out

\* A transform with a non-zero third row and a perspective column, whose
\* product with (dx, dy, 0, 1) has w different from 1, was applied to a
\* vector off the axes.
C11_Witness ==
    /\ op = "transform3d_transform_vector"
    /\ m3.m14 # Zero /\ m3.m24 # Zero /\ m3.m31 # Zero /\ m3.m32 # Zero
    /\ m3.m41 # Zero
    /\ v.dx # Zero /\ v.dy # Zero
    /\ transform_vector_impl(m3, v).dw \notin {Zero, One}
    /\ out = Vector4d_truncate(transform_vector_impl(m3, v))

-----------------------------------------------------------------------------
(* Building a transform from its arguments, then using it *)

InitBuild ==
    /\ \/ /\ args \in [theta : SampleAngles, center : SampleCenters]
          /\ v \in DirectionVectors
       \/ /\ args \in [x : Extents, y : Extents]
          /\ v = Vector_zero
    /\ Unused({"t", "u", "m3", "n3", "rect", "dec"})
    /\ Start

FromRotation ==
    /\ op = "init"
    /\ "theta" \in DOMAIN args
    /\ op' = "from_rotation"
    /\ t' = Transform_from_rotation(args.theta, args.center)
    /\ out' = t'
    /\ UNCHANGED <<u, m3, n3, v, rect, dec, args>>

FromSkew ==
    /\ op = "init"
    /\ "theta" \in DOMAIN args
    /\ op' = "from_skew"
    /\ t' = Transform_from_skew(args.theta)
    /\ out' = t'
    /\ UNCHANGED <<u, m3, n3, v, rect, dec, args>>

FromScale ==
    /\ op = "init"
    /\ "x" \in DOMAIN args
    /\ op' = "from_scale"
    /\ t' = Transform_from_scale(args.x, args.y)
    /\ out' = t'
    /\ UNCHANGED <<u, m3, n3, v, rect, dec, args>>

FromTranslation ==
    /\ op = "init"
    /\ "x" \in DOMAIN args
    /\ op' = "from_translation"
    /\ t' = Transform_from_translation(args.x, args.y)
    /\ out' = t'
    /\ UNCHANGED <<u, m3, n3, v, rect, dec, args>>

\* v.transform(Transform::from_rotation(theta, center))
RotateVector ==
    /\ op = "from_rotation"
    /\ op' = "rotate_vector"
    /\ out' = Vector_transform(v, t)
    /\ UNCHANGED operands

\* center.transform(Transform::from_rotation(theta, center))
TransformCenter ==
    /\ op = "from_rotation"
    /\ op' = "transform_center"
    /\ out' = Point_transform(args.center, t)
    /\ UNCHANGED operands

\* decompose applied to the transform just built
DecomposeBuilt ==
    /\ op \in {"from_rotation", "from_skew", "from_scale", "from_translation"}
    /\ op' = "decompose"
    /\ dec' = Transform_decompose(t)
    /\ out' = dec'
    /\ UNCHANGED <<t, u, m3, n3, v, rect, args>>

NextBuild ==
    \/ FromRotation
    \/ FromSkew
    \/ FromScale
    \/ FromTranslation
    \/ RotateVector
    \/ TransformCenter
    \/ DecomposeBuilt

SpecBuild == InitBuild /\ [][NextBuild]_vars

\* C12: from_rotation(theta, origin) is m11 = cos, m12 = -sin, m21 = sin,
\* m22 = cos, m31 = m32 = 0; with the y axis pointing down a positive angle
\* turns counter-clockwise on screen: East (1, 0) turned by +90 degrees is
\* North (0, -1), turned by -90 degrees it is South (0, 1), and every
\* compass direction turned by theta is the compass direction at its angle
\* plus theta, as Direction::unit_vector gives it.
C12_RotationConvention ==
    /\ (op = "from_rotation" /\ args.center = Point_zero) =>
            /\ out = Transform_row_major(cos(args.theta), SNeg(sin(args.theta)),
                                         sin(args.theta), cos(args.theta), Zero, Zero)
            /\ args.theta = Angle_from_degrees(S(90)) =>
                    out = Transform_row_major(Zero, S(-1), One, Zero, Zero, Zero)
            /\ args.theta = Angle_from_degrees(S(45)) =>
                    out = Transform_row_major(Root2(1, 2), Root2(-1, 2),
                                              Root2(1, 2), Root2(1, 2), Zero, Zero)
    /\ (op = "rotate_vector" /\ args.center = Point_zero) =>
            /\ (v = Direction_unit_vector("East") /\ args.theta = Angle_from_degrees(S(90))) =>
                    out = Direction_unit_vector("North") /\ out = Vector_new(Zero, S(-1))
            /\ (v = Direction_unit_vector("East") /\ args.theta = Angle_from_degrees(S(-90))) =>
                    out = Direction_unit_vector("South") /\ out = Vector_new(Zero, One)
            /\ \A d \in Directions, e \in Directions :
                    (/\ v = Direction_unit_vector(d)
                     /\ Angle_normalize(SAdd(Direction_angle(d), args.theta))
                            = Angle_normalize(Direction_angle(e)))
                        => out = Direction_unit_vector(e)

\* East was turned by +90 degrees about the origin and came out as (0, -1).
C12_Witness ==
    /\ op = "rotate_vector"
    /\ args.center = Point_zero
    /\ args.theta = Angle_from_degrees(S(90))
    /\ v = Vector_new(One, Zero)
    /\ t = Transform_row_major(Zero, S(-1), One, Zero, Zero, Zero)
    /\ out = Vector_new(Zero, S(-1))

\* C13: decompose returns translation = (m31, m32) exactly, whatever the
\* linear part is; a pure translation from_translation(x, y) decomposes to
\* that translation with scale (1, 1), rotation 0 and skew 0.
C13_TranslationExact ==
    op = "decompose" =>
        /\ dec.translation = Vector_new(t.m31, t.m32)
        /\ \A tr \in SampleTranslations :
                t = Transform_from_translation(tr[1], tr[2]) =>
                    dec = [translation |-> Vector_new(tr[1], tr[2]),
                           scale |-> Vector_new(One, One),
                           rotation |-> Angle_ZERO, skew |-> Angle_ZERO]

\* The translation by (-2, 1/2) was decomposed.
C13_Witness ==
    /\ op = "decompose"
    /\ t = Transform_from_translation(S(-2), Frac(1, 2))
    /\ dec.translation = Vector_new(S(-2), Frac(1, 2))
    /\ dec.scale = Vector_new(One, One)
    /\ dec.rotation = Zero /\ dec.skew = Zero

\* C14: a pure scale from_scale(sx, sy) with sx > 0 and sy > 0 decomposes
\* to scale (sx, sy), zero translation, rotation 0 and skew 0.
C14_DecomposeScale ==
    (/\ op = "decompose"
     /\ "x" \in DOMAIN args
     /\ t = Transform_from_scale(args.x, args.y)
     /\ SGt(args.x, Zero) /\ SGt(args.y, Zero))
        => dec = [translation |-> Vector_zero,
                  scale |-> Vector_new(args.x, args.y),
                  rotation |-> Angle_ZERO, skew |-> Angle_ZERO]

\* from_scale(2, 1/2) was built and decomposed.
C14_Witness ==
    /\ op = "decompose"
    /\ "x" \in DOMAIN args
    /\ args.x = S(2) /\ args.y = Frac(1, 2)
    /\ t = Transform_from_scale(S(2), Frac(1, 2))
    /\ dec.scale = Vector_new(S(2), Frac(1, 2))

\* C15: a pure rotation about the origin by theta, -180 < theta < 180
\* degrees, decomposes to rotation = theta with scale (1, 1), skew 0 and
\* zero translation.
C15_DecomposeRotation ==
    (/\ op = "decompose"
     /\ "theta" \in DOMAIN args
     /\ args.center = Point_zero
     /\ t = Transform_from_rotation(args.theta, args.center)
     /\ SLt(Angle_from_degrees(S(-180)), args.theta)
     /\ SLt(args.theta, Angle_from_degrees(S(180))))
        => dec = [translation |-> Vector_zero,
                  scale |-> Vector_new(One, One),
                  rotation |-> args.theta, skew |-> Angle_ZERO]

\* The rotation by -135 degrees about the origin was built and decomposed:
\* there the two row angles differ by 270 degrees before normalising.
C15_Witness ==
    /\ op = "decompose"
    /\ "theta" \in DOMAIN args
    /\ args.center = Point_zero
    /\ args.theta = Angle_from_degrees(S(-135))
    /\ t = Transform_row_major(Root2(-1, 2), Root2(1, 2), Root2(-1, 2), Root2(-1, 2), Zero, Zero)
    /\ SSub(Vector_angle(Vector_new(t.m21, t.m22)), Vector_angle(Vector_new(t.m11, t.m12))) = S(6)
    /\ dec.rotation = Angle_from_degrees(S(-135))

\* C16: a pure skew from_skew(theta) = [1, 0, -sin, cos, 0, 0] with
\* -90 < theta < 90 degrees decomposes to skew = theta, sign included, with
\* rotation 0, scale (1, 1) and zero translation.
C16_DecomposeSkew ==
    (/\ op \in {"from_skew", "decompose"}
     /\ "theta" \in DOMAIN args
     /\ t = Transform_from_skew(args.theta))
        => /\ t = Transform_row_major(One, Zero, SNeg(sin(args.theta)), cos(args.theta), Zero, Zero)
           /\ (/\ op = "decompose"
               /\ SLt(Angle_from_degrees(S(-90)), args.theta)
               /\ SLt(args.theta, Angle_from_degrees(S(90))))
                => dec = [translation |-> Vector_zero,
                          scale |-> Vector_new(One, One),
                          rotation |-> Angle_ZERO, skew |-> args.theta]

\* The skew by -45 degrees was built and decomposed.
C16_Witness ==
    /\ op = "decompose"
    /\ "theta" \in DOMAIN args
    /\ args.theta = Angle_from_degrees(S(-45))
    /\ t = Transform_row_major(One, Zero, Root2(1, 2), Root2(1, 2), Zero, Zero)
    /\ dec.skew = Angle_from_degrees(S(-45))
    /\ dec.rotation = Zero

-----------------------------------------------------------------------------
(* Orthographic projection of the corners of its box *)

InitOrtho ==
    /\ args \in [left : Coords, right : Coords, bottom : Coords, top : Coords,
                 near : Coords, far : Coords]
    /\ Unused({"t", "u", "m3", "n3", "v", "rect", "dec"})
    /\ Start

Ortho ==
    /\ op = "init"
    /\ op' = "ortho"
    /\ m3' = Transform3d_ortho(args.left, args.right, args.bottom, args.top, args.near, args.far)
    /\ out' = m3'
    /\ UNCHANGED <<t, u, n3, v, rect, dec, args>>

\* transform_point applied to the top left and the bottom right corner
ProjectCorners ==
    /\ op = "ortho"
    /\ op' = "transform_point"
    /\ out' = [top_left |-> Transform3d_transform_point(m3, Point_new(args.left, args.top)),
               bottom_right |-> Transform3d_transform_point(m3, Point_new(args.right, args.bottom))]
    /\ UNCHANGED operands

NextOrtho == Ortho \/ ProjectCorners

SpecOrtho == InitOrtho /\ [][NextOrtho]_vars

\* The box has an extent on every axis.
OrthoBoxProper ==
    /\ args.left # args.right
    /\ args.bottom # args.top
    /\ args.near # args.far

\* C17: ortho(l, r, b, t, n, f) is the scale (2/(r-l), 2/(b-t), -2/(f-n))
\* followed by the translation (-(r+l)/(r-l), -(b+t)/(b-t), -(f+n)/(f-n)):
\* the scale factors sit on the diagonal, the translation unscaled in the
\* fourth row, and so x = left goes to -1, x = right to +1, y = top to -1
\* and y = bottom to +1 (for a box with an extent on every axis).
C17_OrthoScaleThenTranslate ==
    /\ (op = "ortho" /\ OrthoBoxProper) =>
            out = Transform3d_row_major(
                    SDiv(S(2), SSub(args.right, args.left)), Zero, Zero, Zero,
                    Zero, SDiv(S(2), SSub(args.bottom, args.top)), Zero, Zero,
                    Zero, Zero, SDiv(S(-2), SSub(args.far, args.near)), Zero,
                    SDiv(SNeg(SAdd(args.right, args.left)), SSub(args.right, args.left)),
                    SDiv(SNeg(SAdd(args.bottom, args.top)), SSub(args.bottom, args.top)),
                    SDiv(SNeg(SAdd(args.far, args.near)), SSub(args.far, args.near)),
                    One)
    /\ (op = "transform_point" /\ OrthoBoxProper) =>
            /\ out.top_left = Point_new(S(-1), S(-1))
            /\ out.bottom_right = Point_new(One, One)

\* A box off centre on both axes and in depth was projected: its
\* translation row is not zero and its corners went to (-1, -1) and (1, 1).
C17_Witness ==
    /\ op = "transform_point"
    /\ OrthoBoxProper
    /\ args.left = Zero /\ args.right = One /\ args.top = S(-1) /\ args.bottom = Zero
    /\ args.near = One /\ args.far = Zero
    /\ m3.m11 = S(2) /\ m3.m41 = S(-1) /\ m3.m42 = One /\ m3.m33 = S(2)
    /\ out.top_left = Point_new(S(-1), S(-1))
    /\ out.bottom_right = Point_new(One, One)

\* A row of the linear part is (0, 0).
HasZeroRow(tr) == ~RowsNonZero(tr)

\* C18 as stated: decompose on a transform whose row (m11, m12) or row
\* (m21, m22) has zero magnitude produces a non-finite rotation or skew
\* angle.
C18_ZeroRowNonFiniteAngle ==
    (op = "decompose" /\ HasZeroRow(t))
        => ~IsFinite(dec.rotation) \/ ~IsFinite(dec.skew)

\* C18, amended: decompose on a transform with finite entries and a row of
\* zero magnitude returns a decomposition, not an error, whose rotation and
\* skew are finite angles (the zero row's angle is atan2 of two zeros; no
\* division takes place) and whose scale component for that row is 0.
C18_ZeroRowFiniteAngle ==
    (op = "decompose" /\ HasZeroRow(t)) =>
        /\ DOMAIN out = {"translation", "scale", "rotation", "skew"}
        /\ IsFinite(dec.rotation) /\ IsFinite(dec.skew)
        /\ (t.m11 = Zero /\ t.m12 = Zero) => dec.scale.dx = Zero
        /\ (t.m21 = Zero /\ t.m22 = Zero) => dec.scale.dy = Zero

\* A transform whose first row is zero and whose second row is not was
\* decomposed: the x scale is 0 and both angles are finite.
C18_Witness ==
    /\ op = "decompose"
    /\ t.m11 = Zero /\ t.m12 = Zero
    /\ t.m21 # Zero /\ t.m22 # Zero
    /\ dec.scale.dx = Zero /\ dec.scale.dy # Zero
    /\ IsFinite(dec.rotation) /\ IsFinite(dec.skew)

-----------------------------------------------------------------------------
(* Scalar::new and BreaksOrd *)

FloatTypes == {"f32", "f64"}

IntTypes == {"i8", "i16", "i32", "i64", "i128", "u8", "u16", "u32", "u64", "u128"}

\* The unit structs of the tests: A implements no comparison trait, A2
\* derives PartialOrd and Ord, A3 derives PartialOrd without Ord, and A4
\* derives PartialOrd without Ord and implements BreaksOrd itself.
StructTypes == {"A", "A2", "A3", "A4"}

Types == FloatTypes \cup IntTypes \cup StructTypes

PartialOrdTypes == FloatTypes \cup IntTypes \cup {"A2", "A3", "A4"}

OrdTypes == IntTypes \cup {"A2"}

\* f32::is_finite / f64::is_finite
is_finite(self) == IsFinite(self)

\* Mutation: only NaN counts, the infinities pass.
BreaksOrd_for_float_nan_only(self) == IsNaN(self)

\* impl BreaksOrd for f32, impl BreaksOrd for f64
BreaksOrd_for_float(self) == ~is_finite(self)

\* impl BreaksOrd for A4
BreaksOrd_for_A4(self) == FALSE

\* The most specific impl of BreaksOrdSpec that applies to the type:
\* T: Ord, then T: PartialOrd, then every T.
BreaksOrdSpec_breaks_ord_spec(type, self) ==
    IF type \in OrdTypes THEN FALSE
    ELSE IF type \in PartialOrdTypes THEN TRUE
    ELSE FALSE

\* The impl of BreaksOrd for the type itself where there is one, else the
\* default impl for every T, which forwards to BreaksOrdSpec.
BreaksOrd_breaks_ord(type, self) ==
    IF type \in FloatTypes THEN BreaksOrd_for_float(self)
    ELSE IF type = "A4" THEN BreaksOrd_for_A4(self)
    ELSE BreaksOrdSpec_breaks_ord_spec(type, self)

\* Scalar::new stores the value; it has no other path.
Scalar_new(value) == [t |-> value, unit |-> "PhantomData"]

\* The smallest and largest value of the integer types whose range the
\* model's integers hold.
IntRange(type) ==
    CASE type = "i8" -> <<-128, 127>>
      [] type = "u8" -> <<0, 255>>
      [] type = "i16" -> <<-32768, 32767>>
      [] type = "u16" -> <<0, 65535>>

\* A value together with its type.  A unit struct has one value, written 0.
TypedValues ==
    {[type |-> ty, value |-> x] : ty \in FloatTypes, x \in Extents \cup {NaN, PosInf, NegInf}}
    \cup {[type |-> ty, value |-> Zero] : ty \in IntTypes \cup StructTypes}
    \cup {[type |-> ty, value |-> S(IntRange(ty)[i])] : ty \in {"i8", "u8", "i16", "u16"}, i \in 1..2}

InitScalar ==
    /\ args \in TypedValues
    /\ Unused({"t", "u", "m3", "n3", "v", "rect", "dec"})
    /\ Start

ScalarNew ==
    /\ op = "init"
    /\ op' = "scalar_new"
    /\ out' = Scalar_new(args.value)
    /\ UNCHANGED operands

BreaksOrd ==
    /\ op = "init"
    /\ op' = "breaks_ord"
    /\ out' = BreaksOrd_breaks_ord(args.type, args.value)
    /\ UNCHANGED operands

NextScalar == ScalarNew \/ BreaksOrd

SpecScalar == InitScalar /\ [][NextScalar]_vars

\* The value is one of those the claims name as breaking a total order:
\* a float NaN or infinity, or any value of a type that is PartialOrd but
\* not Ord (the floats aside).
BreaksTotalOrder(a) ==
    \/ a.type \in FloatTypes /\ a.value \in {NaN, PosInf, NegInf}
    \/ a.type \in (PartialOrdTypes \ OrdTypes) \ FloatTypes

\* The call returned a Scalar holding the value.
Constructed(a, result) == DOMAIN result = {"t", "unit"} /\ result.t = a.value

\* C19: Scalar::new(v) panics whenever v breaks a total ordering (a float
\* NaN or infinity, or any value of a type that is PartialOrd but not Ord)
\* and succeeds for every other value.
C19_NewPanicsOnBrokenOrder ==
    op = "scalar_new" => (Constructed(args, out) <=> ~BreaksTotalOrder(args))

\* C20: breaks_ord() is true exactly for the float values NaN, +infinity
\* and -infinity and false for every finite float; false for every value of
\* an Ord type and of a type that is not PartialOrd; and true for every
\* value of a type that is PartialOrd but not Ord, unless the type has its
\* own BreaksOrd impl (A4, which answers false).
C20_BreaksOrdClassification ==
    op = "breaks_ord" =>
        /\ args.type \in FloatTypes => (out <=> args.value \in {NaN, PosInf, NegInf})
        /\ args.type \in OrdTypes => out = FALSE
        /\ args.type \notin PartialOrdTypes => out = FALSE
        /\ args.type \in ((PartialOrdTypes \ OrdTypes) \ FloatTypes) \ {"A4"} => out = TRUE
        /\ args.type = "A4" => out = FALSE

\* breaks_ord answered true for an f32 infinity.
C20_Witness ==
    /\ op = "breaks_ord"
    /\ args.type = "f32"
    /\ args.value = NegInf
    /\ out = TRUE

-----------------------------------------------------------------------------
(* Max and Min *)

\* x.partial_cmp(&y) on two operands, compared by value.
partial_cmp(x, y) ==
    IF IsNaN(x.val) \/ IsNaN(y.val) THEN None
    ELSE IF SLt(x.val, y.val) THEN Some("Less")
    ELSE IF SGt(x.val, y.val) THEN Some("Greater")
    ELSE Some("Equal")

\* self != self
ne_self(x) == IsNaN(x.val)

Max_max(self, other) ==
    LET c == partial_cmp(self, other)
    IN  IF c = Some("Less") THEN other
        ELSE IF c = Some("Greater") \/ c = Some("Equal") THEN self
        ELSE IF ne_self(self) THEN other ELSE self

Min_min(self, other) ==
    LET c == partial_cmp(self, other)
    IN  IF c = Some("Less") \/ c = Some("Equal") THEN self
        ELSE IF c = Some("Greater") THEN other
        ELSE IF ne_self(self) THEN other ELSE self

\* Two operands held at different addresses, each with any value.
OperandPairs ==
    [self : {[id |-> "three", val |-> x] : x \in Extents \cup {NaN, PosInf, NegInf}},
     other : {[id |-> "three_again", val |-> x] : x \in Extents \cup {NaN, PosInf, NegInf}}]

InitMinMax ==
    /\ args \in OperandPairs
    /\ Unused({"t", "u", "m3", "n3", "v", "rect", "dec"})
    /\ Start

Max ==
    /\ op = "init"
    /\ op' = "max"
    /\ out' = Max_max(args.self, args.other)
    /\ UNCHANGED operands

Min ==
    /\ op = "init"
    /\ op' = "min"
    /\ out' = Min_min(args.self, args.other)
    /\ UNCHANGED operands

NextMinMax == Max \/ Min

SpecMinMax == InitMinMax /\ [][NextMinMax]_vars

\* C21: for two operands that compare equal, Max::max returns the very
\* operand std::cmp::Ord::max returns, its second argument, and Min::min the
\* very operand std::cmp::Ord::min returns, its first argument.
C21_PointerIdentity ==
    partial_cmp(args.self, args.other) = Some("Equal") =>
        /\ op = "max" => out.id = args.other.id
        /\ op = "min" => out.id = args.self.id

-----------------------------------------------------------------------------
(* Rects from an anchor point and a size *)

\* The scalar type T of a Rect: an integer type divides with truncation
\* toward zero, a float type exactly.
ScalarTypes == {"i32", "f32"}

\* x / y for T; the integer case is given whole numbers and y > 0.
div(T, x, y) ==
    IF T = "i32"
    THEN IF x[1] >= 0 THEN S(x[1] \div y[1]) ELSE S(-((-x[1]) \div y[1]))
    ELSE SDiv(x, y)

OrdinaryNum_halved(T, self) == div(T, self, Two)

Size_new(width, height) == [width |-> width, height |-> height]

Rect_center_x(T, self) == OrdinaryNum_halved(T, SAdd(self.left, self.right))
Rect_center_y(T, self) == OrdinaryNum_halved(T, SAdd(self.top, self.bottom))
Rect_width(self) == SSub(self.right, self.left)
Rect_height(self) == SSub(self.bottom, self.top)
Rect_size(self) == Size_new(Rect_width(self), Rect_height(self))

HorizontalLocations == {"Left", "Center", "Right"}
VerticalLocations == {"Top", "Center", "Bottom"}
RectLocations == [horizontal : HorizontalLocations, vertical : VerticalLocations]

Rect_point_at(T, self, location) ==
    Point_new(
        CASE location.horizontal = "Left" -> self.left
          [] location.horizontal = "Center" -> Rect_center_x(T, self)
          [] location.horizontal = "Right" -> self.right,
        CASE location.vertical = "Top" -> self.top
          [] location.vertical = "Center" -> Rect_center_y(T, self)
          [] location.vertical = "Bottom" -> self.bottom)

RectPosition_new(location, point) == [location |-> location, point |-> point]

Rect_position_at(T, self, location) ==
    RectPosition_new(location, Rect_point_at(T, self, location))

Rect_from_top_left(T, top_left, size) ==
    Rect_from_top_right_bottom_left(
        top_left.y, SAdd(top_left.x, size.width),
        SAdd(top_left.y, size.height), top_left.x)

Rect_from_top_center(T, top_center, size) ==
    LET half_width == OrdinaryNum_halved(T, size.width)
    IN  Rect_from_top_right_bottom_left(
            top_center.y, SAdd(top_center.x, half_width),
            SAdd(top_center.y, size.height), SSub(top_center.x, half_width))

Rect_from_top_right(T, top_right, size) ==
    Rect_from_top_right_bottom_left(
        top_right.y, top_right.x,
        SAdd(top_right.y, size.height), SSub(top_right.x, size.width))

Rect_from_center_left(T, left_center, size) ==
    LET half_height == OrdinaryNum_halved(T, size.height)
    IN  Rect_from_top_right_bottom_left(
            SSub(left_center.y, half_height), SAdd(left_center.x, size.width),
            SAdd(left_center.y, half_height), left_center.x)

Rect_from_center(T, center, size) ==
    LET half_width == OrdinaryNum_halved(T, size.width)
        half_height == OrdinaryNum_halved(T, size.height)
    IN  Rect_from_top_right_bottom_left(
            SSub(center.y, half_height), SAdd(center.x, half_width),
            SAdd(center.y, half_height), SSub(center.x, half_width))

Rect_from_center_right(T, right_center, size) ==
    LET half_height == OrdinaryNum_halved(T, size.height)
    IN  Rect_from_top_right_bottom_left(
            SSub(right_center.y, half_height), right_center.x,
            SAdd(right_center.y, half_height), SSub(right_center.x, size.width))

Rect_from_bottom_right(T, bottom_right, size) ==
    Rect_from_top_right_bottom_left(
        SSub(bottom_right.y, size.height), bottom_right.x,
        bottom_right.y, SSub(bottom_right.x, size.width))

\* Mutation: the whole width is taken on each side of the centre.
Rect_from_bottom_center_whole_width(T, bottom_center, size) ==
    Rect_from_top_right_bottom_left(
        SSub(bottom_center.y, size.height), SAdd(bottom_center.x, size.width),
        bottom_center.y, SSub(bottom_center.x, size.width))

Rect_from_bottom_center(T, bottom_center, size) ==
    LET half_width == OrdinaryNum_halved(T, size.width)
    IN  Rect_from_top_right_bottom_left(
            SSub(bottom_center.y, size.height), SAdd(bottom_center.x, half_width),
            bottom_center.y, SSub(bottom_center.x, half_width))

Rect_from_bottom_left(T, bottom_left, size) ==
    Rect_from_top_right_bottom_left(
        SSub(bottom_left.y, size.height), SAdd(bottom_left.x, size.width),
        bottom_left.y, bottom_left.x)

\* The constructor named after the anchor, as test::points calls them.
Rect_from_anchor(T, location, point, size) ==
    CASE location = [horizontal |-> "Left", vertical |-> "Top"] -> Rect_from_top_left(T, point, size)
      [] location = [horizontal |-> "Center", vertical |-> "Top"] -> Rect_from_top_center(T, point, size)
      [] location = [horizontal |-> "Right", vertical |-> "Top"] -> Rect_from_top_right(T, point, size)
      [] location = [horizontal |-> "Left", vertical |-> "Center"] -> Rect_from_center_left(T, point, size)
      [] location = [horizontal |-> "Center", vertical |-> "Center"] -> Rect_from_center(T, point, size)
      [] location = [horizontal |-> "Right", vertical |-> "Center"] -> Rect_from_center_right(T, point, size)
      [] location = [horizontal |-> "Left", vertical |-> "Bottom"] -> Rect_from_bottom_left(T, point, size)
      [] location = [horizontal |-> "Center", vertical |-> "Bottom"] -> Rect_from_bottom_center(T, point, size)
      [] location = [horizontal |-> "Right", vertical |-> "Bottom"] -> Rect_from_bottom_right(T, point, size)

\* The assert! of the _with_width and _with_height functions failed.
Panic(message) == [panic |-> message]

RectPosition_left_with_width(T, self, width) ==
    CASE self.location.horizontal = "Left" -> self.point.x
      [] self.location.horizontal = "Center" -> SSub(self.point.x, OrdinaryNum_halved(T, width))
      [] self.location.horizontal = "Right" -> SSub(self.point.x, width)

RectPosition_right_with_width(T, self, width) ==
    CASE self.location.horizontal = "Left" -> SAdd(self.point.x, width)
      [] self.location.horizontal = "Center" -> SAdd(self.point.x, OrdinaryNum_halved(T, width))
      [] self.location.horizontal = "Right" -> self.point.x

RectPosition_top_with_height(T, self, height) ==
    CASE self.location.vertical = "Top" -> self.point.y
      [] self.location.vertical = "Center" -> SSub(self.point.y, OrdinaryNum_halved(T, height))
      [] self.location.vertical = "Bottom" -> SSub(self.point.y, height)

RectPosition_bottom_with_height(T, self, height) ==
    CASE self.location.vertical = "Top" -> SAdd(self.point.y, height)
      [] self.location.vertical = "Center" -> SAdd(self.point.y, OrdinaryNum_halved(T, height))
      [] self.location.vertical = "Bottom" -> self.point.y

\* The arguments are evaluated in order, top first, and each asserts that
\* the dimension it is given is not negative.
Rect_from_position(T, rect_position, size) ==
    IF ~SLe(Zero, size.height) THEN Panic("invalid value for height")
    ELSE IF ~SLe(Zero, size.width) THEN Panic("invalid value for width")
    ELSE Rect_from_top_right_bottom_left(
            RectPosition_top_with_height(T, rect_position, size.height),
            RectPosition_right_with_width(T, rect_position, size.width),
            RectPosition_bottom_with_height(T, rect_position, size.height),
            RectPosition_left_with_width(T, rect_position, size.width))

RectPosition_rect_with_size(T, self, size) == Rect_from_position(T, self, size)

\* Rect sides are whole numbers in -MaxMag..MaxMag, in any order.
RectCoords == {S(n) : n \in -MaxMag..MaxMag}

AnchorRects ==
    {Rect_from_top_right_bottom_left(a, b, c, d) :
        a \in RectCoords, b \in RectCoords, c \in RectCoords, d \in RectCoords}

InitAnchor ==
    /\ rect \in AnchorRects
    /\ args \in [T : ScalarTypes, location : RectLocations]
    /\ Unused({"t", "u", "m3", "n3", "v", "dec"})
    /\ Start

\* Rect::from_<anchor>(rect.<anchor>(), rect.size())
FromAnchor ==
    /\ op = "init"
    /\ op' = "from_anchor"
    /\ out' = Rect_from_anchor(args.T, args.location,
                               Rect_point_at(args.T, rect, args.location), Rect_size(rect))
    /\ UNCHANGED operands

\* Rect::from_position(rect.position_at(location), rect.size())
FromPosition ==
    /\ op = "init"
    /\ op' = "from_position"
    /\ out' = Rect_from_position(args.T, Rect_position_at(args.T, rect, args.location),
                                 Rect_size(rect))
    /\ UNCHANGED operands

\* RectPosition::<anchor>_from_rect(rect).rect_with_size(rect.size())
RectWithSize ==
    /\ op = "init"
    /\ op' = "rect_with_size"
    /\ out' = RectPosition_rect_with_size(
                args.T, RectPosition_new(args.location, Rect_point_at(args.T, rect, args.location)),
                Rect_size(rect))
    /\ UNCHANGED operands

NextAnchor == FromAnchor \/ FromPosition \/ RectWithSize

SpecAnchor == InitAnchor /\ [][NextAnchor]_vars

IsEven(x) == x[2] = 0 /\ x[3] = 1 /\ x[1] % 2 = 0

\* Width and height are not negative, and with an integer scalar the four
\* sides are even.
AnchorRoundTripCase ==
    /\ SLe(rect.left, rect.right)
    /\ SLe(rect.top, rect.bottom)
    /\ args.T = "i32" =>
            IsEven(rect.top) /\ IsEven(rect.right) /\ IsEven(rect.bottom) /\ IsEven(rect.left)

-----------------------------------------------------------------------------
(* Growing a rect to a point *)

\* (self.left..=self.right).contains(&x)
Rect_contains_inclusive_x(self, x) == SLe(self.left, x) /\ SLe(x, self.right)

\* (self.top..=self.bottom).contains(&y)
Rect_contains_inclusive_y(self, y) == SLe(self.top, y) /\ SLe(y, self.bottom)

Rect_contains_inclusive(self, point) ==
    Rect_contains_inclusive_x(self, point.x) /\ Rect_contains_inclusive_y(self, point.y)

\* Mutation: the top left corner is left out of the points.
Rect_grow_to_without_top_left(self, point) ==
    IF Rect_contains_inclusive(self, point) THEN self
    ELSE LET r == Rect_from_iter(<<Rect_bottom_right(self), point>>)
         IN  IF Rect_contains_inclusive(r, point) THEN r
             ELSE Panic("assertion failed: rect.contains_inclusive(point)")

Rect_grow_to(self, point) ==
    IF Rect_contains_inclusive(self, point) THEN self
    ELSE LET r == Rect_from_iter(<<Rect_bottom_right(self), Rect_top_left(self), point>>)
         IN  IF Rect_contains_inclusive(r, point) THEN r
             ELSE Panic("assertion failed: rect.contains_inclusive(point)")

GrowPoints == {Vector_new(x, y) : x \in RectCoords, y \in RectCoords}

InitGrow ==
    /\ rect \in AnchorRects
    /\ v \in GrowPoints
    /\ Unused({"args", "t", "u", "m3", "n3", "dec"})
    /\ Start

GrowTo ==
    /\ op = "init"
    /\ op' = "grow_to"
    /\ out' = Rect_grow_to(rect, Vector_to_point(v))
    /\ UNCHANGED operands

NextGrow == GrowTo

SpecGrow == InitGrow /\ [][NextGrow]_vars

\* x is the least (sense = 1) or the greatest (sense = -1) of the set xs.
IsExtreme(x, xs, sense) ==
    /\ x \in xs
    /\ \A y \in xs : IF sense = 1 THEN SLe(x, y) ELSE SLe(y, x)

\* C23: grow_to(p) returns the rect unchanged when it inclusively contains
\* p; otherwise it returns the smallest axis-aligned rect containing the
\* original top left corner, the original bottom right corner and p.  In
\* every case the result is a rect that inclusively contains p: the debug
\* assertion does not fire.
C23_GrowToContainsPoint ==
    op = "grow_to" =>
        LET p == Vector_to_point(v)
            xs == {rect.left, rect.right, p.x}
            ys == {rect.top, rect.bottom, p.y}
        IN  /\ DOMAIN out = {"top", "right", "bottom", "left"}
            /\ Rect_contains_inclusive(out, p)
            /\ Rect_contains_inclusive(rect, p) => out = rect
            /\ ~Rect_contains_inclusive(rect, p) =>
                    /\ IsExtreme(out.left, xs, 1) /\ IsExtreme(out.right, xs, -1)
                    /\ IsExtreme(out.top, ys, 1) /\ IsExtreme(out.bottom, ys, -1)

\* A rect with area grew to a point above and to the right of it: the top
\* and right sides moved, the bottom and left sides stayed.
C23_Witness ==
    /\ op = "grow_to"
    /\ SLt(rect.left, rect.right) /\ SLt(rect.top, rect.bottom)
    /\ SGt(v.dx, rect.right) /\ SLt(v.dy, rect.top)
    /\ out = Rect_from_top_right_bottom_left(v.dy, v.dx, rect.bottom, rect.left)

-----------------------------------------------------------------------------
(* Normalising an angle *)

\* Angles in sixteenths of a turn over two turns either way, and some that
\* are no rational part of a turn.
NormalizeAngles ==
    {Frac(n, 2) : n \in -(4 * MaxEighths)..(4 * MaxEighths)}
    \cup {Root2(n, 1) : n \in {-7, -3, -1, 1, 3, 7}}

InitAngle ==
    /\ args \in [theta : NormalizeAngles]
    /\ Unused({"t", "u", "m3", "n3", "v", "rect", "dec"})
    /\ Start

Normalize ==
    /\ op = "init"
    /\ op' = "normalize"
    /\ out' = Angle_normalize(args.theta)
    /\ UNCHANGED operands

\* normalize applied to what normalize returned
NormalizeAgain ==
    /\ op = "normalize"
    /\ op' = "normalize_again"
    /\ out' = [first |-> out, second |-> Angle_normalize(out)]
    /\ UNCHANGED operands

NextAngle == Normalize \/ NormalizeAgain

SpecAngle == InitAngle /\ [][NextAngle]_vars

\* x is a whole number.
IsWhole(x) == IsFinite(x) /\ x[2] = 0 /\ x[3] = 1

InHalfOpenTurn(x) == SLe(SNeg(PI), x) /\ SLt(x, PI)

\* C24: normalize returns an angle in [-PI, PI) that differs from the input
\* by a whole number of turns; an angle already in the range is returned
\* unchanged, +PI maps to -PI, and normalize is idempotent.
C24_NormalizeRange ==
    /\ op = "normalize" =>
            /\ InHalfOpenTurn(out)
            /\ IsWhole(SDiv(SSub(args.theta, out), TAU))
            /\ InHalfOpenTurn(args.theta) => out = args.theta
            /\ args.theta = PI => out = SNeg(PI)
    /\ op = "normalize_again" => out.second = out.first

\* +PI was normalised to -PI, and normalising again left it there.
C24_Witness ==
    /\ op = "normalize_again"
    /\ args.theta = PI
    /\ out.first = SNeg(PI)
    /\ out.second = SNeg(PI)

\* C25: for every angle theta and point c, from_rotation(theta, c) leaves
\* c fixed and has the linear part m11, m12, m21, m22 of the rotation about
\* the origin: it is translate(-c), then rotate, then translate(+c).
C25_RotationFixesCenter ==
    /\ op = "transform_center" => out = args.center
    /\ op = "from_rotation" =>
            LET r == Transform_row_major(cos(args.theta), SNeg(sin(args.theta)),
                                         sin(args.theta), cos(args.theta), Zero, Zero)
                c == args.center
            IN  /\ <<out.m11, out.m12, out.m21, out.m22>> = <<r.m11, r.m12, r.m21, r.m22>>
                /\ out = Transform_post_mul(
                            Transform_post_mul(
                                Transform_from_translation(SNeg(c.x), SNeg(c.y)), r),
                            Transform_from_translation(c.x, c.y))
                /\ \A w \in DirectionVectors :
                        Point_transform(Point_add(c, w), out)
                            = Point_add(c, Vector_transform(w, r))

\* The rotation by 45 degrees about (-2, 1/2) was applied to its centre.
C25_Witness ==
    /\ op = "transform_center"
    /\ args.theta = Angle_from_degrees(S(45))
    /\ args.center = Point_new(S(-2), Frac(1, 2))
    /\ t.m31 # Zero /\ t.m32 # Zero
    /\ out = Point_new(S(-2), Frac(1, 2))

-----------------------------------------------------------------------------
(* Chains of three transforms *)

InitChain ==
    /\ t \in Affines
    /\ u \in SampleTransforms
    /\ args \in [third : SampleTransforms]
    /\ Unused({"m3", "n3", "v", "rect", "dec"})
    /\ Start

\* t.post_mul(u).post_mul(third)
PostMulPostMul ==
    /\ op = "init"
    /\ op' = "post_mul_post_mul"
    /\ out' = Transform_post_mul(Transform_post_mul(t, u), args.third)
    /\ UNCHANGED operands

\* t.pre_mul(u).post_mul(third), the shape of t.pre_translate(..).post_scale(..)
PreMulPostMul ==
    /\ op = "init"
    /\ op' = "pre_mul_post_mul"
    /\ out' = Transform_post_mul(Transform_pre_mul(t, u), args.third)
    /\ UNCHANGED operands

\* Transform3d::from(t)
Lift ==
    /\ op = "init"
    /\ op' = "lift"
    /\ out' = Transform3d_from(t)
    /\ UNCHANGED operands

\* Transform3d::from(t.post_mul(u))
LiftProduct ==
    /\ op = "init"
    /\ op' = "lift_product"
    /\ out' = Transform3d_from(Transform_post_mul(t, u))
    /\ UNCHANGED operands

NextChain == PostMulPostMul \/ PreMulPostMul \/ Lift \/ LiftProduct

SpecChain == InitChain /\ [][NextChain]_vars

\* C26: post_mul is associative, A.post_mul(B).post_mul(C) ==
\* A.post_mul(B.post_mul(C)), so a chain of pre_ and post_ wrappers gives
\* the same transform however it is grouped.
C26_PostMulAssociative ==
    /\ op = "post_mul_post_mul" =>
            out = Transform_post_mul(t, Transform_post_mul(u, args.third))
    /\ op = "pre_mul_post_mul" =>
            out = Transform_pre_mul(Transform_post_mul(t, args.third), u)

\* Three transforms that do not commute and all carry a translation were
\* multiplied.
C26_Witness ==
    /\ op = "post_mul_post_mul"
    /\ t.m12 # Zero /\ t.m31 # Zero
    /\ u.m21 # Zero /\ u.m32 # Zero
    /\ args.third.m12 # Zero /\ args.third.m31 # Zero
    /\ Transform_post_mul(t, u) # Transform_post_mul(u, t)
    /\ Transform_post_mul(u, args.third) # Transform_post_mul(args.third, u)
    /\ out = Transform_post_mul(t, Transform_post_mul(u, args.third))

\* C27: the 2D-to-3D conversion is a homomorphism: the identity converts to
\* the identity, and Transform3d::from(A.post_mul(B)) ==
\* Transform3d::from(A).post_mul(Transform3d::from(B)).
C27_LiftIsHomomorphism ==
    /\ (op = "lift" /\ t = Transform_identity) => out = Transform3d_identity
    /\ op = "lift_product" =>
            out = Transform3d_post_mul(Transform3d_from(t), Transform3d_from(u))

\* The product of two transforms with shear and translation was converted.
C27_Witness ==
    /\ op = "lift_product"
    /\ t.m12 # Zero /\ t.m21 # Zero /\ t.m31 # Zero /\ t.m32 # Zero
    /\ u.m12 # Zero /\ u.m21 # Zero /\ u.m31 # Zero /\ u.m32 # Zero
    /\ out.m41 # t.m31 /\ out.m41 # u.m31
    /\ out = Transform3d_post_mul(Transform3d_from(t), Transform3d_from(u))

\* C28: for a non-singular transform, decompose reports scale.dx > 0 and a
\* scale.dy with the sign of the determinant (a reflection is put on the y
\* axis, never on x), and a skew in [-PI/2, PI/2].
C28_DecomposeSigns ==
    (op = "decompose" /\ Transform_determinant(t) # Zero) =>
        /\ SGt(dec.scale.dx, Zero)
        /\ SSign(dec.scale.dy) = SSign(Transform_determinant(t))
        /\ SLe(SNeg(Angle_FRAC_PI_2), dec.skew) /\ SLe(dec.skew, Angle_FRAC_PI_2)

\* A reflecting transform whose first row points along negative x, with
\* rows that are not perpendicular, was decomposed.
C28_Witness ==
    /\ op = "decompose"
    /\ SLt(Transform_determinant(t), Zero)
    /\ SLt(t.m11, Zero) /\ t.m12 = Zero
    /\ dec.skew # Zero
    /\ SGt(dec.scale.dx, Zero) /\ SLt(dec.scale.dy, Zero)

-----------------------------------------------------------------------------
(* Circle and Ellipse moved by a vector *)

Circle_new_unchecked(center, radius) == [center |-> center, radius |-> radius]

Circle_add(self, rhs) == Circle_new_unchecked(Point_add(self.center, rhs), self.radius)

Circle_sub(self, rhs) == Circle_new_unchecked(Point_add(self.center, rhs), self.radius)

Ellipse_new(center, radius) == [center |-> center, radius |-> radius]

Ellipse_add(self, rhs) == Ellipse_new(Point_add(self.center, rhs), self.radius)

Ellipse_sub(self, rhs) == Ellipse_new(Point_add(self.center, rhs), self.radius)

Radii == {Zero, One, Frac(1, 2)}

Circles == {Circle_new_unchecked(c, r) : c \in SampleCenters, r \in Radii}

Ellipses ==
    {Ellipse_new(c, r) : c \in SampleCenters,
                         r \in {Size_new(Zero, Zero), Size_new(One, S(2))}}

ShapeOffsets == {Vector_new(dx, dy) : dx \in Extents, dy \in Extents}

InitShape ==
    /\ args \in [circle : Circles, ellipse : Ellipses]
    /\ v \in ShapeOffsets
    /\ Unused({"t", "u", "m3", "n3", "rect", "dec"})
    /\ Start

CircleAdd ==
    /\ op = "init"
    /\ op' = "circle_add"
    /\ out' = Circle_add(args.circle, v)
    /\ UNCHANGED operands

CircleSub ==
    /\ op = "init"
    /\ op' = "circle_sub"
    /\ out' = Circle_sub(args.circle, v)
    /\ UNCHANGED operands

\* (circle + v) - v
CircleAddSub ==
    /\ op = "circle_add"
    /\ op' = "circle_add_sub"
    /\ out' = Circle_sub(out, v)
    /\ UNCHANGED operands

EllipseAdd ==
    /\ op = "init"
    /\ op' = "ellipse_add"
    /\ out' = Ellipse_add(args.ellipse, v)
    /\ UNCHANGED operands

EllipseSub ==
    /\ op = "init"
    /\ op' = "ellipse_sub"
    /\ out' = Ellipse_sub(args.ellipse, v)
    /\ UNCHANGED operands

\* (ellipse + v) - v
EllipseAddSub ==
    /\ op = "ellipse_add"
    /\ op' = "ellipse_add_sub"
    /\ out' = Ellipse_sub(out, v)
    /\ UNCHANGED operands

NextShape ==
    \/ CircleAdd
    \/ CircleSub
    \/ CircleAddSub
    \/ EllipseAdd
    \/ EllipseSub
    \/ EllipseAddSub

SpecShape == InitShape /\ [][NextShape]_vars

\* C29: subtracting a vector v from a Circle or an Ellipse moves the center
\* by -v and keeps the radius, so (shape + v) - v is the shape again.
C29_SubUndoesAdd ==
    /\ op = "circle_sub" =>
          out = Circle_new_unchecked(Point_add(args.circle.center, Vector_neg(v)), args.circle.radius)
    /\ op = "circle_add_sub" => out = args.circle
    /\ op = "ellipse_sub" =>
          out = Ellipse_new(Point_add(args.ellipse.center, Vector_neg(v)), args.ellipse.radius)
    /\ op = "ellipse_add_sub" => out = args.ellipse

====
